---- MODULE Spec2Model ----
(***************************************************************************)
(* Price-extraction core of nail-spa-atlas: the batch orchestrator         *)
(* (batchScrapeCompetitors), the per-site scraper (scrapeCompetitorPrices) *)
(* and the shared browser session (getBrowser / createPage / closeBrowser).*)
(*                                                                         *)
(* Strings are sequences of one-character strings, so that startsWith,     *)
(* includes, replace and concatenation are computed as the code computes   *)
(* them.  Prices are whole currency units.  A confidence is kept as its    *)
(* numerator over 3 (the code divides a count of 0..3 by 3).               *)
(***************************************************************************)
EXTENDS Integers, Sequences, FiniteSets, TLC

\* ---------------------------------------------------------------- bounds
\* longest list of targets handed to one batchScrapeCompetitors call
MaxTargets == 2
\* largest concurrency argument of a batch
MaxConcurrency == 2
\* largest retries argument of a direct navigateToUrl call
MaxRetries == 5
\* most elements of a page handed to extractAllServices
MaxElements == 2
\* most set operations made on the cache
MaxSets == 2
\* most calls made on the rate limiter, checkRateLimit and resetRateLimit
\* taken together
MaxChecks == 2
\* most checkRateLimit calls in progress at once
MaxInFlight == 2
\* loads of one scrape that resolve
MaxLoads == 2

\* ------------------------------------------------------- string helpers
\* String.prototype.startsWith
StartsWith(s, p) == Len(s) >= Len(p) /\ SubSeq(s, 1, Len(p)) = p

\* String.prototype.includes
Includes(s, p) ==
  \E i \in 1..(Len(s) - Len(p) + 1) : SubSeq(s, i, i + Len(p) - 1) = p

\* a function computed for its whole domain, so that a table is worked
\* out once
Table(f) == f @@ <<>>

\* websiteUrl.replace(/\/$/, "")
StripTrailingSlash(s) ==
  IF Len(s) > 0 /\ s[Len(s)] = "/" THEN SubSeq(s, 1, Len(s) - 1) ELSE s

\* the value of an unset optional price (prices are positive)
undefined == -1

\* ------------------------------------------------------ program constants
SERVICE_PAGE_PATHS == <<
  <<>>,
  <<"/", "s", "e", "r", "v", "i", "c", "e", "s">>,
  <<"/", "p", "r", "i", "c", "i", "n", "g">>,
  <<"/", "m", "e", "n", "u">>,
  <<"/", "p", "r", "i", "c", "e", "-", "l", "i", "s", "t">>,
  <<"/", "o", "u", "r", "-", "s", "e", "r", "v", "i", "c", "e", "s">>,
  <<"/", "n", "a", "i", "l", "-", "s", "e", "r", "v", "i", "c", "e", "s">>,
  <<"/", "r", "a", "t", "e", "s">>,
  <<"/", "p", "r", "i", "c", "e", "s">>,
  <<"/", "s", "e", "r", "v", "i", "c", "e", "-", "m", "e", "n", "u">>,
  <<"/", "n", "a", "i", "l", "-", "m", "e", "n", "u">> >>

SERVICE_KEYWORDS == [
  gel |-> {
    <<"g", "e", "l", " ", "m", "a", "n", "i", "c", "u", "r", "e">>,
    <<"g", "e", "l", " ", "p", "o", "l", "i", "s", "h">>,
    <<"g", "e", "l", " ", "n", "a", "i", "l", "s">>,
    <<"g", "e", "l", " ", "c", "o", "l", "o", "r">>,
    <<"s", "h", "e", "l", "l", "a", "c">> },
  pedicure |-> {
    <<"p", "e", "d", "i", "c", "u", "r", "e">>,
    <<"s", "p", "a", " ", "p", "e", "d", "i", "c", "u", "r", "e">>,
    <<"d", "e", "l", "u", "x", "e", " ", "p", "e", "d", "i", "c", "u", "r", "e">>,
    <<"c", "l", "a", "s", "s", "i", "c", " ", "p", "e", "d", "i", "c", "u", "r", "e">>,
    <<"b", "a", "s", "i", "c", " ", "p", "e", "d", "i", "c", "u", "r", "e">> },
  acrylic |-> {
    <<"a", "c", "r", "y", "l", "i", "c", " ", "f", "u", "l", "l", " ", "s", "e", "t">>,
    <<"f", "u", "l", "l", " ", "s", "e", "t">>,
    <<"a", "c", "r", "y", "l", "i", "c", " ", "n", "a", "i", "l", "s">>,
    <<"n", "a", "i", "l", " ", "e", "x", "t", "e", "n", "s", "i", "o", "n", "s">>,
    <<"a", "c", "r", "y", "l", "i", "c", "s">>,
    <<"a", "c", "r", "y", "l", "i", "c", " ", "s", "e", "t">> } ]

invalidUrlPatterns == {
  <<"g", "o", "o", "g", "l", "e", ".", "c", "o", "m", "/", "s", "e", "a", "r", "c", "h">>,
  <<"g", "o", "o", "g", "l", "e", ".", "c", "o", "m", "/", "m", "a", "p", "s">> }

FacebookDomain == <<"f", "a", "c", "e", "b", "o", "o", "k", ".", "c", "o", "m">>
InstagramDomain == <<"i", "n", "s", "t", "a", "g", "r", "a", "m", ".", "c", "o", "m">>

\* -------------------------------------------------------------- fixtures
\* target URLs handed to the scraper
\* "http://a"
UrlA == <<"h", "t", "t", "p", ":", "/", "/", "a">>
\* "https://b/"
UrlB == <<"h", "t", "t", "p", "s", ":", "/", "/", "b", "/">>
\* "http://c"
UrlC == <<"h", "t", "t", "p", ":", "/", "/", "c">>
\* "http://d"
UrlD == <<"h", "t", "t", "p", ":", "/", "/", "d">>
\* ""
UrlEmpty == <<>>
\* "#"
UrlHash == <<"#">>
\* "ftp://a"
UrlFtp == <<"f", "t", "p", ":", "/", "/", "a">>
\* "httpx://a"
UrlHttpx == <<"h", "t", "t", "p", "x", ":", "/", "/", "a">>
\* "https://google.com/search?q=a"
UrlSearch == <<"h", "t", "t", "p", "s", ":", "/", "/", "g", "o", "o", "g", "l", "e", ".", "c", "o", "m", "/", "s", "e", "a", "r", "c", "h", "?", "q", "=", "a">>
\* "https://google.com/maps/a"
UrlMaps == <<"h", "t", "t", "p", "s", ":", "/", "/", "g", "o", "o", "g", "l", "e", ".", "c", "o", "m", "/", "m", "a", "p", "s", "/", "a">>
\* "https://facebook.com/a"
UrlFb == <<"h", "t", "t", "p", "s", ":", "/", "/", "f", "a", "c", "e", "b", "o", "o", "k", ".", "c", "o", "m", "/", "a">>
\* "https://instagram.com/a"
UrlIg == <<"h", "t", "t", "p", "s", ":", "/", "/", "i", "n", "s", "t", "a", "g", "r", "a", "m", ".", "c", "o", "m", "/", "a">>
\* "https://b/services"
UrlBServices == <<"h", "t", "t", "p", "s", ":", "/", "/", "b", "/", "s", "e", "r", "v", "i", "c", "e", "s">>
\* "https://b/menu"
UrlBMenu == <<"h", "t", "t", "p", "s", ":", "/", "/", "b", "/", "m", "e", "n", "u">>
\* "https://b/book"
UrlBBook == <<"h", "t", "t", "p", "s", ":", "/", "/", "b", "/", "b", "o", "o", "k">>
\* "http://e"
UrlE == <<"h", "t", "t", "p", ":", "/", "/", "e">>
\* "http://heads"
UrlHeads == <<"h", "t", "t", "p", ":", "/", "/", "h", "e", "a", "d", "s">>
\* "http://e/1" .. "http://e/6"
UrlELinks == <<
  <<"h", "t", "t", "p", ":", "/", "/", "e", "/", "1">>,
  <<"h", "t", "t", "p", ":", "/", "/", "e", "/", "2">>,
  <<"h", "t", "t", "p", ":", "/", "/", "e", "/", "3">>,
  <<"h", "t", "t", "p", ":", "/", "/", "e", "/", "4">>,
  <<"h", "t", "t", "p", ":", "/", "/", "e", "/", "5">>,
  <<"h", "t", "t", "p", ":", "/", "/", "e", "/", "6">> >>
\* the URL of a page that has not loaded anything yet
AboutBlank == <<"a", "b", "o", "u", "t", ":", "b", "l", "a", "n", "k">>

\* services found on pages (serviceName, serviceType, price)
SvcGel == [serviceName |-> <<"g", "e", "l", " ", "n", "a", "i", "l", "s", " ", "$", "4", "5">>,
  serviceType |-> "gel", price |-> 45]
SvcPed == [serviceName |-> <<"s", "p", "a", " ", "p", "e", "d", "i", "c", "u", "r", "e", " ", "$", "5", "0">>,
  serviceType |-> "pedicure", price |-> 50]
SvcAcr == [serviceName |-> <<"f", "u", "l", "l", " ", "s", "e", "t", " ", "$", "6", "0">>,
  serviceType |-> "acrylic", price |-> 60]

\* URL patterns aborted by the request filter of every created page
BlockedUrlPatterns == {
  <<"g", "o", "o", "g", "l", "e", "-", "a", "n", "a", "l", "y", "t", "i", "c", "s">>,
  <<"g", "o", "o", "g", "l", "e", "t", "a", "g", "m", "a", "n", "a", "g", "e", "r">>,
  <<"f", "a", "c", "e", "b", "o", "o", "k">>,
  <<"d", "o", "u", "b", "l", "e", "c", "l", "i", "c", "k">>,
  <<"a", "n", "a", "l", "y", "t", "i", "c", "s">>,
  <<"a", "d", "s">>,
  <<"t", "r", "a", "c", "k", "i", "n", "g">> }

\* what the web serves at a URL: whether the server answers, whether reading
\* the loaded document raises, what extractAllServices finds in it, and the
\* service/pricing links that link discovery returns for it
NoPage == [up |-> FALSE, throws |-> FALSE, services |-> <<>>, links |-> <<>>]

SitePage(u) ==
  CASE u = UrlA ->
         [up |-> TRUE, throws |-> FALSE, services |-> <<SvcGel, SvcPed>>,
          links |-> <<>>]
    [] u = UrlB ->
         [up |-> TRUE, throws |-> FALSE, services |-> <<>>,
          links |-> <<UrlBMenu, UrlBBook>>]
    [] u = UrlBServices ->
         [up |-> TRUE, throws |-> FALSE, services |-> <<SvcAcr>>,
          links |-> <<>>]
    [] u = UrlBBook ->
         [up |-> TRUE, throws |-> FALSE, services |-> <<SvcGel, SvcAcr>>,
          links |-> <<>>]
    [] u = UrlE ->
         [up |-> TRUE, throws |-> FALSE, services |-> <<>>,
          links |-> UrlELinks]
    [] u = UrlHeads ->
         [up |-> TRUE, throws |-> FALSE, services |-> <<SvcGel, SvcPed>>,
          links |-> <<>>]
    [] u = UrlD ->
         [up |-> TRUE, throws |-> TRUE, services |-> <<>>, links |-> <<>>]
    [] u = UrlIg ->
         [up |-> TRUE, throws |-> FALSE, services |-> <<SvcPed>>,
          links |-> <<>>]
    [] u = UrlFb ->
         [up |-> TRUE, throws |-> FALSE, services |-> <<SvcGel>>,
          links |-> <<>>]
    [] OTHER -> NoPage

\* the document shown by a page whose last successful load was `loaded`;
\* every operation on a page that is gone (its browser was closed) raises
Document(page, loaded) ==
  IF ~page.open
    THEN [up |-> FALSE, throws |-> TRUE, services |-> <<>>, links |-> <<>>]
  ELSE IF loaded = AboutBlank
    THEN [up |-> TRUE, throws |-> FALSE, services |-> <<>>, links |-> <<>>]
  ELSE SitePage(loaded)

\* ------------------------------------------------------------ browser.ts
\* variant: the request handler lets every request through
RequestContinued(url) == FALSE

\* the request handler installed by createPage aborts the request
RequestBlocked(url) == \E pat \in BlockedUrlPatterns : Includes(url, pat)

\* page.goto(url) resolves
Goto(page, url) == page.open /\ SitePage(url).up /\ ~RequestBlocked(url)

\* how page.goto(url) settles: it resolves ("ok"), rejects with
\* net::ERR_BLOCKED_BY_CLIENT ("blocked") or rejects otherwise ("error")
GotoOutcome(page, url) ==
  IF ~page.open THEN "error"
  ELSE IF RequestBlocked(url) THEN "blocked"
  ELSE IF SitePage(url).up THEN "ok"
  ELSE "error"

\* the wait strategies of navigateToUrl
strategies == <<
  [waitUntil |-> "domcontentloaded", timeout |-> 15000],
  [waitUntil |-> "networkidle0", timeout |-> 20000],
  [waitUntil |-> "load", timeout |-> 25000] >>

\* strategies[i] || strategies[0], for the 0-based attempt i
StrategyAt(i) == IF i < Len(strategies) THEN strategies[i + 1] ELSE strategies[1]

\* String.prototype.replace(a, b): the first occurrence of a becomes b
ReplaceFirst(s, a, b) ==
  IF Includes(s, a)
    THEN LET at == CHOOSE i \in 1..(Len(s) - Len(a) + 1) :
                     /\ SubSeq(s, i, i + Len(a) - 1) = a
                     /\ \A j \in 1..(i - 1) : SubSeq(s, j, j + Len(a) - 1) # a
         IN SubSeq(s, 1, at - 1) \o b \o SubSeq(s, at + Len(a), Len(s))
    ELSE s

HttpScheme == <<"h", "t", "t", "p", ":", "/", "/">>
HttpsScheme == <<"h", "t", "t", "p", "s", ":", "/", "/">>

\* variant: the same URL is loaded again
SameUrl(url) == url

\* the URL tried after an ERR_BLOCKED_BY_CLIENT
AltUrl(url) ==
  IF StartsWith(url, HttpsScheme)
    THEN ReplaceFirst(url, HttpsScheme, HttpScheme)
    ELSE ReplaceFirst(url, HttpScheme, HttpsScheme)

\* one page.goto made by navigateToUrl
GotoEvent(u, i) ==
  [kind |-> "goto", url |-> u, attempt |-> i,
   waitUntil |-> StrategyAt(i).waitUntil, timeout |-> StrategyAt(i).timeout]

\* variant: the same wait after every attempt
WaitFlat(i) == [kind |-> "wait", ms |-> 1000]

\* one setTimeout awaited by navigateToUrl
WaitEvent(i) == [kind |-> "wait", ms |-> 1000 * (i + 1)]

\* variant: the rejection of the alternate load leaves the function
AltThrows(log) == [threw |-> TRUE, log |-> log]

\* the alternate load rejected: the inner catch logs and goes on
AltFailed(log) == [threw |-> FALSE, log |-> log]

\* the loop of navigateToUrl from attempt i on; g[i + 1] tells how the
\* primary and the alternate page.goto of attempt i settle
RECURSIVE NavLoop(_, _, _, _, _)
NavLoop(g, url, retries, i, log) ==
  IF i >= retries THEN [ok |-> FALSE, threw |-> FALSE, log |-> log]
  ELSE
    LET log1 == Append(log, GotoEvent(url, i))
    IN IF g[i + 1].primary = "ok"
         THEN [ok |-> TRUE, threw |-> FALSE, log |-> log1]
       ELSE
         LET blocked == g[i + 1].primary = "blocked"
             log2 == IF blocked THEN Append(log1, GotoEvent(AltUrl(url), i))
                     ELSE log1
             alt == AltFailed(log2)
         IN IF blocked /\ g[i + 1].alt = "ok"
              THEN [ok |-> TRUE, threw |-> FALSE, log |-> log2]
            ELSE IF blocked /\ alt.threw
              THEN [ok |-> FALSE, threw |-> TRUE, log |-> log2]
            ELSE IF i = retries - 1
              THEN [ok |-> FALSE, threw |-> FALSE, log |-> log2]
            ELSE NavLoop(g, url, retries, i + 1, Append(log2, WaitEvent(i)))

\* a run of navigateToUrl(page, url, retries)
NavRun(g, url, retries) == NavLoop(g, url, retries, 0, <<>>)

\* how the loads of a URL settle on the modelled web: the same way on
\* every attempt
WebOracle(page, url, retries) ==
  LET primary == GotoOutcome(page, url)
      attempt == [primary |-> primary,
                  alt |-> IF primary = "blocked"
                            THEN GotoOutcome(page, AltUrl(url)) ELSE "none"]
  IN [i \in 1..retries |-> attempt]

\* the page.goto calls of a run
Loads(log) == SelectSeq(log, LAMBDA e : e.kind = "goto")

\* what a run of navigateToUrl leaves: its return value and the record of
\* the call kept for the scrape
NavReturn(url, retries, run) ==
  [ok |-> run.ok,
   call |-> [url |-> url, retries |-> retries, loads |-> Len(Loads(run.log))]]

\* navigateToUrl(page, url, retries) on the modelled web
NavigateToUrl(page, url, retries) ==
  NavReturn(url, retries, NavRun(WebOracle(page, url, retries), url, retries))

\* ------------------------------------------------------ text functions
\* the character U+2014
EmDash == "emdash"

\* String.prototype.toLowerCase on the letters A..Z
LowerCase ==
  ("A" :> "a") @@ ("B" :> "b") @@ ("C" :> "c") @@ ("D" :> "d") @@
  ("E" :> "e") @@ ("F" :> "f") @@ ("G" :> "g") @@ ("H" :> "h") @@
  ("I" :> "i") @@ ("J" :> "j") @@ ("K" :> "k") @@ ("L" :> "l") @@
  ("M" :> "m") @@ ("N" :> "n") @@ ("O" :> "o") @@ ("P" :> "p") @@
  ("Q" :> "q") @@ ("R" :> "r") @@ ("S" :> "s") @@ ("T" :> "t") @@
  ("U" :> "u") @@ ("V" :> "v") @@ ("W" :> "w") @@ ("X" :> "x") @@
  ("Y" :> "y") @@ ("Z" :> "z")

ToLowerCase(s) ==
  [i \in 1..Len(s) |-> IF s[i] \in DOMAIN LowerCase THEN LowerCase[s[i]]
                       ELSE s[i]]

\* String.prototype.trim
RECURSIVE TrimStart(_)
TrimStart(s) ==
  IF s # <<>> /\ Head(s) = " " THEN TrimStart(Tail(s)) ELSE s

RECURSIVE TrimEnd(_)
TrimEnd(s) ==
  IF s # <<>> /\ s[Len(s)] = " " THEN TrimEnd(SubSeq(s, 1, Len(s) - 1)) ELSE s

Trim(s) == TrimEnd(TrimStart(s))

\* text.substring(0, n)
Substring0(s, n) == SubSeq(s, 1, IF Len(s) < n THEN Len(s) ELSE n)

\* the value of a decimal digit
DigitValue ==
  ("0" :> 0) @@ ("1" :> 1) @@ ("2" :> 2) @@ ("3" :> 3) @@
  ("4" :> 4) @@ ("5" :> 5) @@ ("6" :> 6) @@ ("7" :> 7) @@
  ("8" :> 8) @@ ("9" :> 9)

IsDigit(t, i) == i <= Len(t) /\ t[i] \in DOMAIN DigitValue

\* \s* of the price pattern
RECURSIVE SkipSpaces(_, _)
SkipSpaces(t, i) ==
  IF i <= Len(t) /\ t[i] = " " THEN SkipSpaces(t, i + 1) ELSE i

\* the matches of /\$\s*(\d{2,3}(?:\.\d{2})?)/g from position i on, as
\* amounts in whole currency units
RECURSIVE PriceTokens(_, _)
PriceTokens(t, i) ==
  IF i > Len(t) THEN <<>>
  ELSE IF t[i] # "$" THEN PriceTokens(t, i + 1)
  ELSE LET j == SkipSpaces(t, i + 1)
       IN IF IsDigit(t, j) /\ IsDigit(t, j + 1)
            THEN LET two == 10 * DigitValue[t[j]] + DigitValue[t[j + 1]]
                 IN IF IsDigit(t, j + 2)
                      THEN <<10 * two + DigitValue[t[j + 2]]>>
                             \o PriceTokens(t, j + 3)
                      ELSE <<two>> \o PriceTokens(t, j + 2)
            ELSE PriceTokens(t, i + 1)

\* ------------------------------------------------------- price-extractor
\* extractPrices(text): the amounts of the currency-prefixed tokens of the
\* text, in the order they appear
extractPrices(text) == PriceTokens(text, 1)

\* the service categories
Categories == {"gel", "pedicure", "acrylic"}

\* the name of a category as text
CategoryWord ==
  [gel |-> <<"g", "e", "l">>,
   pedicure |-> <<"p", "e", "d", "i", "c", "u", "r", "e">>,
   acrylic |-> <<"a", "c", "r", "y", "l", "i", "c">>]

\* the text names the category: by its name or by one of its keywords
NamesCategory(lower, cat) ==
  \/ Includes(lower, CategoryWord[cat])
  \/ \E kw \in SERVICE_KEYWORDS[cat] : Includes(lower, kw)

\* the orders in which detectServiceType may look for the categories
TypeOrders ==
  { o \in [1..3 -> Categories] : \A i, j \in 1..3 : i # j => o[i] # o[j] }

\* detectServiceType(text): the first category, in the order the function
\* looks for them, that the text names; "other" when it names none
detectServiceType(text, order) ==
  LET lower == ToLowerCase(text)
      hits == { i \in 1..3 : NamesCategory(lower, order[i]) }
  IN IF hits = {} THEN "other"
     ELSE order[CHOOSE i \in hits : \A j \in hits : i <= j]

\* ---------------------------------------------------- extractAllServices
EXCLUDE_KEYWORDS == {
  <<"r", "e", "m", "o", "v", "a", "l">>,
  <<"r", "e", "p", "a", "i", "r">>,
  <<"f", "i", "l", "l">>,
  <<"r", "e", "f", "i", "l", "l">>,
  <<"a", "d", "d", "-", "o", "n">>,
  <<"a", "d", "d", "o", "n">>,
  <<"a", "d", "d", "i", "t", "i", "o", "n", "a", "l">>,
  <<"e", "x", "t", "r", "a">>,
  <<"s", "o", "a", "k", " ", "o", "f", "f">>,
  <<"c", "h", "a", "n", "g", "e">>,
  <<"p", "e", "r", " ", "n", "a", "i", "l">>,
  <<"e", "a", "c", "h", " ", "n", "a", "i", "l">> }

PRICE_RANGES ==
  [gel |-> [min |-> 20, max |-> 90],
   pedicure |-> [min |-> 25, max |-> 140],
   acrylic |-> [min |-> 35, max |-> 200]]

\* variant: no text is skipped for its keywords
ExcludesNothing(textLower) == FALSE

\* EXCLUDE_KEYWORDS.some(kw => textLower.includes(kw))
IsExcluded(textLower) ==
  \E kw \in EXCLUDE_KEYWORDS : Includes(textLower, kw)

\* prices.filter(p => p >= priceRange.min && p <= priceRange.max), or the
\* 20..250 filter for a type without a range
ValidPrices(prices, serviceType) ==
  IF serviceType \in DOMAIN PRICE_RANGES
    THEN SelectSeq(prices, LAMBDA p : /\ p >= PRICE_RANGES[serviceType].min
                                      /\ p <= PRICE_RANGES[serviceType].max)
    ELSE SelectSeq(prices, LAMBDA p : p >= 20 /\ p <= 250)

\* the decimal digits of a natural number
DigitChar == <<"0", "1", "2", "3", "4", "5", "6", "7", "8", "9">>

RECURSIVE NatToString(_)
NatToString(n) ==
  IF n < 10 THEN <<DigitChar[n + 1]>>
  ELSE NatToString(n \div 10) \o <<DigitChar[(n % 10) + 1]>>

\* `${serviceType}-${validPrices[0]}`: the type, a dash and the digits of
\* the price
SeenKey(serviceType, price) == <<serviceType, "-">> \o NatToString(price)

\* variant: no key is ever found in the set
SeenNothing(acc, key) == FALSE

\* seen.has(key)
SeenHas(acc, key) == key \in acc.seen

\* Object.values(SERVICE_KEYWORDS).flat().some(kw => lineLower.includes(kw))
HasKeyword(lineLower) ==
  \E cat \in Categories : \E kw \in SERVICE_KEYWORDS[cat] :
    Includes(lineLower, kw)

\* element texts found on price pages
TextGelFill ==
  <<"G", "e", "l", " ", "M", "a", "n", "i", "c", "u", "r", "e", " ", EmDash, " ", "$", "4", "5", ",", " ", "F", "i", "l", "l", " ", "$", "1", "5">>
TextGel ==
  <<"G", "e", "l", " ", "M", "a", "n", "i", "c", "u", "r", "e", " ", "$", "4", "5">>
TextGelShort ==
  <<"G", "e", "l", " ", "$", "4", "5">>
TextShellac ==
  <<"S", "h", "e", "l", "l", "a", "c", " ", "$", "4", "0">>
TextPedSpa ==
  <<"S", "p", "a", " ", "P", "e", "d", "i", "c", "u", "r", "e", " ", "$", "5", "0">>
TextPed ==
  <<" ", " ", "P", "e", "d", "i", "c", "u", "r", "e", " ", "$", "3", "5">>
TextAcr ==
  <<"A", "c", "r", "y", "l", "i", "c", " ", "F", "u", "l", "l", " ", "S", "e", "t", " ", "$", "6", "0">>
TextRefill ==
  <<"A", "c", "r", "y", "l", "i", "c", " ", "R", "e", "f", "i", "l", "l", " ", "$", "4", "0">>
TextCross ==
  <<"G", "e", "l", " ", "P", "o", "l", "i", "s", "h", " ", "P", "e", "d", "i", "c", "u", "r", "e", " ", "$", "2", "2", " ", "/", " ", "$", "1", "0", "0">>
TextNails ==
  <<"N", "a", "i", "l", "s", " ", "$", "3", "0">>

TextPool ==
  { TextGelFill,
    TextGel,
    TextGelShort,
    TextShellac,
    TextPedSpa,
    TextPed,
    TextAcr,
    TextRefill,
    TextCross,
    TextNails }

\* the texts a strategy can hand to its loop: the texts of the elements,
\* as they are and trimmed
SourceTexts == TextPool \cup { Trim(text) : text \in TextPool }

\* the confidence each strategy gives its candidates, in tenths
StrategyConfidence ==
  ("puppeteer-eval" :> 8) @@ ("cheerio" :> 7) @@ ("raw-text" :> 6)

NoCandidate == [some |-> FALSE]

\* the body of the three loops up to the deduplication: the candidate a
\* strategy makes of one text, if any.  The raw-text strategy also asks for
\* a category keyword.  `text` keeps the whole source text of the candidate.
Candidate(text, source, order) ==
  LET textLower == ToLowerCase(text)
      prices == extractPrices(text)
      serviceType == detectServiceType(text, order)
      validPrices == ValidPrices(prices, serviceType)
  IN IF IsExcluded(textLower) THEN NoCandidate
     ELSE IF Len(prices) = 0 THEN NoCandidate
     ELSE IF serviceType = "other" THEN NoCandidate
     ELSE IF Len(validPrices) = 0 THEN NoCandidate
     ELSE IF source = "raw-text" /\ ~HasKeyword(textLower) THEN NoCandidate
     ELSE [some |-> TRUE,
           key |-> SeenKey(serviceType, validPrices[1]),
           service |-> [serviceName |-> Trim(Substring0(text, 80)),
                        serviceType |-> serviceType,
                        price |-> validPrices[1],
                        confidence |-> StrategyConfidence[source],
                        source |-> source,
                        text |-> text]]

\* Candidate, tabulated for the texts of the model
Candidates ==
  Table([text \in SourceTexts |->
    Table([source \in DOMAIN StrategyConfidence |->
      Table([order \in TypeOrders |-> Candidate(text, source, order)])])])

\* the deduplication and services.push(...) of a loop turn: acc holds the
\* locals `services` and `seen`, c is the candidate of the turn
Push(acc, c) ==
  IF ~c.some THEN acc
  ELSE IF SeenHas(acc, c.key) THEN acc
  ELSE [services |-> Append(acc.services, c.service),
        seen |-> acc.seen \cup {c.key}]

\* one turn of a loop on one text
Propose(acc, text, source, order) ==
  Push(acc, Candidates[text][source][order])

RECURSIVE ProposeAll(_, _, _, _)
ProposeAll(acc, texts, source, order) ==
  IF texts = <<>> THEN acc
  ELSE ProposeAll(Propose(acc, Head(texts), source, order),
                  Tail(texts), source, order)

Texts(elements) == [j \in 1..Len(elements) |-> elements[j].text]

\* text.trim(), tabulated for the texts of the model
Trimmed == Table([text \in TextPool |-> Trim(text)])

\* the words the rendered-DOM strategy looks for inside the page
VisibleWords == {
  <<"g", "e", "l">>,
  <<"p", "e", "d", "i", "c", "u", "r", "e">>,
  <<"a", "c", "r", "y", "l", "i", "c">>,
  <<"m", "a", "n", "i", "c", "u", "r", "e">>,
  <<"n", "a", "i", "l", "s">> }

\* the test page.evaluate(...) of METHOD 1 makes on the text of an element:
\* length 5..300, a price token and one of the words
IsVisibleService(text) ==
  /\ text # <<>>
  /\ ~(Len(text) > 300 \/ Len(text) < 5)
  /\ PriceTokens(text, 1) # <<>>
  /\ \E w \in VisibleWords : Includes(ToLowerCase(text), w)

\* the texts of the model that pass the test
VisibleTexts == { text \in TextPool : IsVisibleService(text) }

\* page.evaluate(...) of METHOD 1: the trimmed texts of the elements that
\* pass the test
VisibleServices(elements) ==
  LET kept == SelectSeq(Texts(elements), LAMBDA text : text \in VisibleTexts)
  IN [j \in 1..Len(kept) |-> Trimmed[kept[j]]]

\* METHOD 2: the trimmed texts of the elements a selector matches, of
\* length 10..300
SelectedTexts(elements) ==
  LET listed == SelectSeq(elements, LAMBDA el : el.listed)
      texts == [j \in 1..Len(listed) |-> Trimmed[listed[j].text]]
  IN SelectSeq(texts, LAMBDA text : ~(Len(text) < 10 \/ Len(text) > 300))

\* METHOD 3: $("body").text() split into lines, trimmed, of length 11..199
BodyLines(elements) ==
  LET lines == [j \in 1..Len(elements) |-> Trimmed[elements[j].text]]
  IN SelectSeq(lines, LAMBDA l : Len(l) > 10 /\ Len(l) < 200)

\* METHOD 3 runs only when the first two methods left fewer than three
\* services
RawTextFallback(acc, elements, order) ==
  IF Len(acc.services) < 3
    THEN ProposeAll(acc, BodyLines(elements), "raw-text", order)
    ELSE acc

\* extractAllServices($, page): METHOD 1, METHOD 2, then METHOD 3
extractAllServices(elements, order) ==
  RawTextFallback(
    ProposeAll(
      ProposeAll([services |-> <<>>, seen |-> {}],
                 VisibleServices(elements), "puppeteer-eval", order),
      SelectedTexts(elements), "cheerio", order),
    elements, order).services

\* ------------------------------------------- competitor-price-scraper.ts
\* the result built before any work is done
InitialResult(websiteUrl) ==
  [success |-> FALSE, confidence |-> 0, source |-> websiteUrl,
   gel |-> undefined, pedicure |-> undefined, acrylic |-> undefined,
   allServices |-> <<>>]

\* the two early returns of scrapeCompetitorPrices
IsRejectedUrl(websiteUrl) ==
  \/ websiteUrl = <<>>
  \/ websiteUrl = <<"#">>
  \/ ~StartsWith(websiteUrl, <<"h", "t", "t", "p">>)
  \/ \E pattern \in invalidUrlPatterns : Includes(websiteUrl, pattern)

IsSocial(websiteUrl) ==
  Includes(websiteUrl, FacebookDomain) \/ Includes(websiteUrl, InstagramDomain)

\* numbers.sort((a, b) => a - b)
RECURSIVE Insert(_, _)
Insert(x, s) ==
  IF s = <<>> THEN <<x>>
  ELSE IF x <= Head(s) THEN <<x>> \o s
  ELSE <<Head(s)>> \o Insert(x, Tail(s))

RECURSIVE Sorted(_)
Sorted(s) == IF s = <<>> THEN <<>> ELSE Insert(Head(s), Sorted(Tail(s)))

median(numbers) ==
  IF Len(numbers) = 0 THEN 0
  ELSE LET sorted == Sorted(numbers)
           mid == Len(sorted) \div 2          \* 0-based index
       IN IF Len(sorted) % 2 = 0
            THEN (sorted[mid] + sorted[mid + 1] + 1) \div 2
            ELSE sorted[mid + 1]

\* SERVICE_KEYWORDS[cat].some(kw => serviceName.toLowerCase().includes(kw))
NameHasKeyword(serviceName, cat) ==
  \E kw \in SERVICE_KEYWORDS[cat] : Includes(ToLowerCase(serviceName), kw)

\* the names the candidates of the model can have
ServiceNames ==
  { SvcGel.serviceName, SvcPed.serviceName, SvcAcr.serviceName }
  \cup { Trim(Substring0(text, 80)) : text \in SourceTexts }

\* NameHasKeyword, tabulated for the names of the model
KeywordCategories ==
  Table([serviceName \in ServiceNames |->
    { cat \in Categories : NameHasKeyword(serviceName, cat) }])

\* bestServices.filter(s => s.serviceType === cat || keyword in serviceName)
RECURSIVE FilterCategory(_, _)
FilterCategory(s, cat) ==
  IF s = <<>> THEN <<>>
  ELSE LET h == Head(s)
           keep == \/ h.serviceType = cat
                   \/ cat \in KeywordCategories[h.serviceName]
       IN (IF keep THEN <<h>> ELSE <<>>) \o FilterCategory(Tail(s), cat)

Prices(s) == [j \in 1..Len(s) |-> s[j].price]

\* state of one exploration: the locals bestServices and successfulUrl, the
\* URL the page currently shows, and the navigateToUrl calls made so far
StartExplore ==
  [bestServices |-> <<>>, successfulUrl |-> <<>>, loaded |-> AboutBlank,
   navs |-> <<>>, log |-> <<>>]

\* the URL tried for a path suffix
TryUrl(websiteUrl, path) ==
  IF path = <<>> THEN websiteUrl ELSE StripTrailingSlash(websiteUrl) \o path

\* the exploration after navigateToUrl(page, url, ...) returned nav; the
\* log keeps what the scrape did to its page, in order
Navigated(st, url, nav) ==
  [st EXCEPT !.navs = Append(@, nav.call),
             !.loaded = IF nav.ok THEN url ELSE @,
             !.log = Append(@, [kind |-> "navigate", url |-> url,
                                ok |-> nav.ok])]

\* variant: the same delay for every target
SettleShort(websiteUrl) == 2000

\* the delay of STEP 1 after a load: isFacebook || isInstagram ? 3000 : 2000
SettleMs(websiteUrl) == IF IsSocial(websiteUrl) THEN 3000 ELSE 2000

\* what a turn of STEP 1 does to the page after the load, up to the return
\* of extractAllServices; when the document raises only the delay is known
\* to have been made
PathEvents(websiteUrl, tryUrl, loaded, doc) ==
  <<[kind |-> "settle", ms |-> SettleMs(websiteUrl)]>>
  \o (IF doc.throws THEN <<>>
      ELSE (IF IsSocial(websiteUrl) THEN <<>> ELSE <<[kind |-> "expand"]>>)
           \o <<[kind |-> "extract", url |-> tryUrl, loaded |-> loaded,
                 services |-> doc.services]>>)

\* what a turn of STEP 2 does to the page after navigateToUrl returned
LinkEvents(href, loaded, doc) ==
  <<[kind |-> "settle", ms |-> 1500]>>
  \o (IF doc.throws THEN <<>>
      ELSE <<[kind |-> "expand"],
             [kind |-> "extract", url |-> href, loaded |-> loaded,
              services |-> doc.services]>>)

Logged(st, events) == [st EXCEPT !.log = @ \o events]

\* bestServices and successfulUrl after extractAllServices gave `services`
\* for url
Better(st, url, services) ==
  IF Len(services) > Len(st.bestServices)
    THEN [st EXCEPT !.bestServices = services, !.successfulUrl = url]
    ELSE st

\* STEP 1: the loop over pathsToTry
RECURSIVE PathLoop(_, _, _, _)
RECURSIVE PathVisit(_, _, _, _, _)
RECURSIVE PathRead(_, _, _, _, _)
RECURSIVE PathNext(_, _, _, _)
PathLoop(page, websiteUrl, paths, st) ==
  IF paths = <<>> THEN st
  ELSE PathVisit(page, websiteUrl, paths, st,
                 NavigateToUrl(page, TryUrl(websiteUrl, Head(paths)), 3))

\* variant: a path whose navigation failed is read all the same
PathTurnReads(websiteUrl, tryUrl, st1, ok, doc) ==
  IF doc.throws
    THEN [st |-> Logged(st1, PathEvents(websiteUrl, tryUrl, st1.loaded, doc)),
          stop |-> FALSE]
  ELSE [st |-> Better(Logged(st1, PathEvents(websiteUrl, tryUrl, st1.loaded,
                                             doc)),
                      tryUrl, doc.services),
        stop |-> Len(doc.services) >= 2]

\* one turn of the loop of STEP 1 after navigateToUrl returned `ok` and
\* left the exploration in st1: `if (!success) continue`, the delay, the
\* extraction from doc, the comparison and the break
PathTurn(websiteUrl, tryUrl, st1, ok, doc) ==
  IF ~ok THEN [st |-> st1, stop |-> FALSE]
  ELSE IF doc.throws
    THEN [st |-> Logged(st1, PathEvents(websiteUrl, tryUrl, st1.loaded, doc)),
          stop |-> FALSE]
  ELSE [st |-> Better(Logged(st1, PathEvents(websiteUrl, tryUrl, st1.loaded,
                                             doc)),
                      tryUrl, doc.services),
        stop |-> Len(doc.services) >= 2]

\* the loop of STEP 1 goes on after a turn unless the turn ended in break
PathNext(page, websiteUrl, paths, turn) ==
  IF turn.stop THEN turn.st ELSE PathLoop(page, websiteUrl, Tail(paths), turn.st)

\* the turn of STEP 1 on the modelled web, once the exploration st1 holds
\* the return of navigateToUrl
PathRead(page, websiteUrl, paths, st1, ok) ==
  PathNext(page, websiteUrl, paths,
           PathTurn(websiteUrl, TryUrl(websiteUrl, Head(paths)), st1, ok,
                    Document(page, st1.loaded)))

\* one turn of the loop of STEP 1, from the return of navigateToUrl on
PathVisit(page, websiteUrl, paths, st, nav) ==
  PathRead(page, websiteUrl, paths,
           Navigated(st, TryUrl(websiteUrl, Head(paths)), nav), nav.ok)

\* STEP 2: the loop over linksAndButtons.slice(0, 5)
RECURSIVE LinkLoop(_, _, _)
RECURSIVE LinkVisit(_, _, _, _)
RECURSIVE LinkRead(_, _, _)
RECURSIVE LinkNext(_, _, _)
LinkLoop(page, links, st) ==
  IF links = <<>> THEN st
  ELSE LinkVisit(page, links, st, NavigateToUrl(page, Head(links), 2))

\* one turn of the loop of STEP 2 after navigateToUrl left the exploration
\* in st1; its return value is not looked at
LinkTurn(href, st1, doc) ==
  IF doc.throws
    THEN [st |-> Logged(st1, LinkEvents(href, st1.loaded, doc)),
          stop |-> FALSE]
  ELSE [st |-> Better(Logged(st1, LinkEvents(href, st1.loaded, doc)),
                      href, doc.services),
        stop |-> Len(doc.services) >= 2]

\* the loop of STEP 2 goes on after a turn unless the turn ended in break
LinkNext(page, links, turn) ==
  IF turn.stop THEN turn.st ELSE LinkLoop(page, Tail(links), turn.st)

\* the turn of STEP 2 on the modelled web
LinkRead(page, links, st1) ==
  LinkNext(page, links, LinkTurn(Head(links), st1, Document(page, st1.loaded)))

\* one turn of the loop of STEP 2, from the return of navigateToUrl on
LinkVisit(page, links, st, nav) ==
  LinkRead(page, links, Navigated(st, Head(links), nav))

\* variant: every discovered link is followed
AllLinks(links) == links

\* linksAndButtons.slice(0, 5)
FirstLinks(links) == SubSeq(links, 1, IF Len(links) < 5 THEN Len(links) ELSE 5)

\* the links STEP 2 follows: none when page.evaluate raises, otherwise the
\* first five of those it returns
DiscoveredLinks(doc) == IF doc.throws THEN <<>> ELSE FirstLinks(doc.links)

\* STEP 2 from the return of its navigateToUrl(page, websiteUrl, 3) on
LinksFrom(page, st1) ==
  LinkLoop(page, DiscoveredLinks(Document(page, st1.loaded)), st1)

\* variant: the fallback runs whenever the paths left fewer than 2 services
FallbackAlsoSocial(st, websiteUrl) == Len(st.bestServices) < 2

\* bestServices.length < 2 && !isFacebook && !isInstagram
FallbackRuns(st, websiteUrl) ==
  Len(st.bestServices) < 2 /\ ~IsSocial(websiteUrl)

\* STEP 2 as a whole
LinkFallback(page, websiteUrl, st) ==
  IF FallbackRuns(st, websiteUrl)
    THEN LinksFrom(page,
           Navigated(st, websiteUrl, NavigateToUrl(page, websiteUrl, 3)))
    ELSE st

\* (isFacebook || isInstagram) ? [""] : SERVICE_PAGE_PATHS
pathsToTry(websiteUrl) ==
  IF IsSocial(websiteUrl) THEN << <<>> >> ELSE SERVICE_PAGE_PATHS

\* STEP 1 then STEP 2
Explore(page, websiteUrl) ==
  LinkFallback(page, websiteUrl,
    PathLoop(page, websiteUrl, pathsToTry(websiteUrl), StartExplore))

\* "Process results": medians, confidence, success, source
\* variant: only the gel bucket is counted
CountGelOnly(gelServices, pedicureServices, acrylicServices) ==
  IF Len(gelServices) > 0 THEN 1 ELSE 0

\* the numerator of result.confidence: the buckets that are not empty
CountNonEmpty(gelServices, pedicureServices, acrylicServices) ==
  (IF Len(gelServices) > 0 THEN 1 ELSE 0)
  + (IF Len(pedicureServices) > 0 THEN 1 ELSE 0)
  + (IF Len(acrylicServices) > 0 THEN 1 ELSE 0)

Aggregate(websiteUrl, st) ==
  IF Len(st.bestServices) = 0 THEN InitialResult(websiteUrl)
  ELSE
    LET gelServices == FilterCategory(st.bestServices, "gel")
        pedicureServices == FilterCategory(st.bestServices, "pedicure")
        acrylicServices == FilterCategory(st.bestServices, "acrylic")
        count == CountNonEmpty(gelServices, pedicureServices, acrylicServices)
    IN [success |-> count > 0,
        confidence |-> count,
        source |-> st.successfulUrl,
        gel |-> IF Len(gelServices) > 0
                  THEN median(Prices(gelServices)) ELSE undefined,
        pedicure |-> IF Len(pedicureServices) > 0
                       THEN median(Prices(pedicureServices)) ELSE undefined,
        acrylic |-> IF Len(acrylicServices) > 0
                      THEN median(Prices(acrylicServices)) ELSE undefined,
        allServices |-> st.bestServices]

\* ---------------------------------------------------------- google-cache.ts
\* JSON values: null, numbers, strings, arrays, and objects as the sequence
\* of their members in insertion order
Null == [t |-> "null"]
JNum(n) == [t |-> "num", n |-> n]
JStr(s) == [t |-> "str", s |-> s]
JArr(items) == [t |-> "arr", items |-> items]
JObj(members) == [t |-> "obj", members |-> members]
Member(name, value) == [name |-> name, value |-> value]

\* a JSON text is kept as the sequence of its tokens
Tok(k) == [k |-> k]

\* JSON.stringify(value)
RECURSIVE Stringify(_)
RECURSIVE StringifyItems(_, _)
RECURSIVE StringifyMembers(_, _)
Stringify(v) ==
  CASE v.t = "null" -> <<Tok("null")>>
    [] v.t = "num" -> <<[k |-> "num", n |-> v.n]>>
    [] v.t = "str" -> <<[k |-> "str", s |-> v.s]>>
    [] v.t = "arr" -> <<Tok("[")>> \o StringifyItems(v.items, 1) \o <<Tok("]")>>
    [] v.t = "obj" -> <<Tok("{")>> \o StringifyMembers(v.members, 1)
                        \o <<Tok("}")>>

StringifyItems(items, j) ==
  IF j > Len(items) THEN <<>>
  ELSE (IF j > 1 THEN <<Tok(",")>> ELSE <<>>)
       \o Stringify(items[j]) \o StringifyItems(items, j + 1)

StringifyMembers(members, j) ==
  IF j > Len(members) THEN <<>>
  ELSE (IF j > 1 THEN <<Tok(",")>> ELSE <<>>)
       \o <<[k |-> "str", s |-> members[j].name], Tok(":")>>
       \o Stringify(members[j].value) \o StringifyMembers(members, j + 1)

\* JSON.parse(text): the value that starts at token i and the position after
\* it; failed when the tokens are not a JSON text
ParseFailed == [failed |-> TRUE, value |-> Null, next |-> 0]

RECURSIVE ParseValue(_, _)
RECURSIVE ParseItems(_, _, _)
RECURSIVE ParseMembers(_, _, _)
ParseValue(toks, i) ==
  IF i > Len(toks) THEN ParseFailed
  ELSE LET k == toks[i].k
       IN CASE k = "null" -> [failed |-> FALSE, value |-> Null, next |-> i + 1]
            [] k = "num" -> [failed |-> FALSE, value |-> JNum(toks[i].n),
                             next |-> i + 1]
            [] k = "str" -> [failed |-> FALSE, value |-> JStr(toks[i].s),
                             next |-> i + 1]
            [] k = "[" ->
                 IF i + 1 <= Len(toks) /\ toks[i + 1].k = "]"
                   THEN [failed |-> FALSE, value |-> JArr(<<>>), next |-> i + 2]
                   ELSE ParseItems(toks, i + 1, <<>>)
            [] k = "{" ->
                 IF i + 1 <= Len(toks) /\ toks[i + 1].k = "}"
                   THEN [failed |-> FALSE, value |-> JObj(<<>>), next |-> i + 2]
                   ELSE ParseMembers(toks, i + 1, <<>>)
            [] OTHER -> ParseFailed

ParseItems(toks, i, items) ==
  LET item == ParseValue(toks, i)
  IN IF item.failed \/ item.next > Len(toks) THEN ParseFailed
     ELSE IF toks[item.next].k = "]"
       THEN [failed |-> FALSE, value |-> JArr(Append(items, item.value)),
             next |-> item.next + 1]
     ELSE IF toks[item.next].k = ","
       THEN ParseItems(toks, item.next + 1, Append(items, item.value))
     ELSE ParseFailed

ParseMembers(toks, i, members) ==
  IF i + 1 > Len(toks) \/ toks[i].k # "str" \/ toks[i + 1].k # ":"
    THEN ParseFailed
  ELSE LET item == ParseValue(toks, i + 2)
           all == Append(members, Member(toks[i].s, item.value))
       IN IF item.failed \/ item.next > Len(toks) THEN ParseFailed
          ELSE IF toks[item.next].k = "}"
            THEN [failed |-> FALSE, value |-> JObj(all), next |-> item.next + 1]
          ELSE IF toks[item.next].k = ","
            THEN ParseMembers(toks, item.next + 1, all)
          ELSE ParseFailed

\* JSON.parse throws unless the whole text is one value
Parse(toks) ==
  LET r == ParseValue(toks, 1)
  IN IF r.failed \/ r.next # Len(toks) + 1 THEN ParseFailed ELSE r

\* variant: every class is given the time to live of the place details
TtlAllTwelveHours ==
  [GEOCODING |-> 60 * 60 * 12,
   PLACES_SEARCH |-> 60 * 60 * 12,
   PLACE_DETAILS |-> 60 * 60 * 12]

\* seconds
CACHE_TTL ==
  [GEOCODING |-> 60 * 60 * 24 * 7,
   PLACES_SEARCH |-> 60 * 60 * 24,
   PLACE_DETAILS |-> 60 * 60 * 12]

\* `${radius}` for a whole radius
NumberToString(n) ==
  IF n < 0 THEN <<"-">> \o NatToString(-n) ELSE NatToString(n)

\* Number.prototype.toFixed(4).  A coordinate is kept in units of 0.00001
\* degrees; the fifth decimal is rounded away, and the sign is printed also
\* when the rounded value is zero
ToFixed4(x) ==
  LET a == IF x < 0 THEN -x ELSE x
      r == (a + 5) \div 10
      frac == r % 10000
  IN (IF x < 0 THEN <<"-">> ELSE <<>>)
     \o NatToString(r \div 10000) \o <<".">>
     \o <<DigitChar[(frac \div 1000) + 1],
          DigitChar[((frac \div 100) % 10) + 1],
          DigitChar[((frac \div 10) % 10) + 1],
          DigitChar[(frac % 10) + 1]>>

\* `geocode:${address.toLowerCase().trim()}`
GeocodeKey(address) ==
  <<"g", "e", "o", "c", "o", "d", "e", ":">> \o Trim(ToLowerCase(address))

\* `places:${lat.toFixed(4)}:${lng.toFixed(4)}:${radius}`
PlacesKey(lat, lng, radius) ==
  <<"p", "l", "a", "c", "e", "s", ":">> \o ToFixed4(lat) \o <<":">>
    \o ToFixed4(lng) \o <<":">> \o NumberToString(radius)

\* `place_details:${placeId}`
PlaceDetailsKey(placeId) ==
  <<"p", "l", "a", "c", "e", "_", "d", "e", "t", "a", "i", "l", "s", ":">>
    \o placeId

\* redis.get(key) on a working store: the text of a key that is set and
\* has not expired, nil otherwise
RedisGet(store, key, now) ==
  IF key \in DOMAIN store /\ now < store[key].expiresAt
    THEN [nil |-> FALSE, text |-> store[key].text]
    ELSE [nil |-> TRUE, text |-> <<>>]

\* redis.setex(key, seconds, text) on a working store
RedisSetex(store, key, seconds, text, now) ==
  [k \in DOMAIN store \cup {key} |->
     IF k = key THEN [text |-> text, expiresAt |-> now + seconds]
     ELSE store[k]]

\* return cached ? JSON.parse(cached) : null, inside try/catch
Decode(reply) ==
  IF reply.nil \/ reply.text = <<>> THEN Null
  ELSE LET r == Parse(reply.text)
       IN IF r.failed THEN Null ELSE r.value

\* ------------------------------------------- browser.ts: the rate limiter
\* the value of an environment variable that is not set
Unset == <<>>

\* parseInt(text) for a text of decimal digits
RECURSIVE ParseInt(_)
ParseInt(text) ==
  IF text = <<>> THEN 0
  ELSE 10 * ParseInt(SubSeq(text, 1, Len(text) - 1))
       + DigitValue[text[Len(text)]]

\* parseInt(process.env.NAME || fallback)
EnvInt(value, fallback) == ParseInt(IF value = Unset THEN fallback ELSE value)

\* RATE_LIMITS under the environment env
RATE_LIMITS(env) ==
  [free |-> EnvInt(env.RATE_LIMIT_FREE, <<"1", "0", "0">>),
   pro |-> EnvInt(env.RATE_LIMIT_PRO, <<"1", "0", "0", "0">>),
   enterprise |->
     EnvInt(env.RATE_LIMIT_ENTERPRISE, <<"1", "0", "0", "0", "0">>)]

\* Date.now().toString(); the clock of the model runs in whole seconds,
\* so the three digits of the milliseconds are zeros
DateNowString(sec) == NatToString(sec) \o <<"0", "0", "0">>

\* text.slice(0, -n)
SliceEnd(text, n) == SubSeq(text, 1, Len(text) - n)

\* `ratelimit:${userId}:${Date.now().toString().slice(0, -5)}`
RateKey(userId, sec) ==
  <<"r", "a", "t", "e", "l", "i", "m", "i", "t", ":">> \o userId \o <<":">>
    \o SliceEnd(DateNowString(sec), 5)

\* a key without a time to live
NoExpiry == -1

\* a key the store holds and that has not expired
Live(store, key, now) ==
  /\ key \in DOMAIN store
  /\ (store[key].expiresAt = NoExpiry \/ now < store[key].expiresAt)

\* `ratelimit:${userId}:*`
ResetPattern(userId) ==
  <<"r", "a", "t", "e", "l", "i", "m", "i", "t", ":">> \o userId \o <<":", "*">>

\* the glob match of redis.keys for a pattern whose only special character
\* is the star: a star stands for any run of characters
RECURSIVE GlobMatch(_, _)
GlobMatch(pattern, key) ==
  IF pattern = <<>> THEN key = <<>>
  ELSE IF Head(pattern) = "*"
    THEN \/ GlobMatch(Tail(pattern), key)
         \/ (key # <<>> /\ GlobMatch(pattern, Tail(key)))
  ELSE /\ key # <<>>
       /\ Head(key) = Head(pattern)
       /\ GlobMatch(Tail(pattern), Tail(key))

\* redis.keys(pattern)
RedisKeys(store, pattern, now) ==
  { k \in DOMAIN store : Live(store, k, now) /\ GlobMatch(pattern, k) }

\* the keys the store holds at an instant, with their entries: an expired
\* key is gone
LiveStore(store, now) ==
  [k \in {x \in DOMAIN store : Live(store, x, now)} |-> store[k]]

\* redis.del(...keys): the store after it
RedisDel(store, keys) == [k \in DOMAIN store \ keys |-> store[k]]

\* the counter the store holds under a key
CountOf(store, key, now) == IF Live(store, key, now) THEN store[key].count ELSE 0

\* variant: an increment that reads and writes in two steps and loses the
\* update of a concurrent increment
RedisIncrLost(store, key, now) ==
  [k \in DOMAIN store \cup {key} |->
     IF k = key THEN [count |-> 1, expiresAt |-> NoExpiry] ELSE store[k]]

\* redis.incr(key): the store after it; the reply is the new counter
RedisIncr(store, key, now) ==
  [k \in DOMAIN store \cup {key} |->
     IF k = key
       THEN [count |-> CountOf(store, key, now) + 1,
             expiresAt |-> IF Live(store, key, now)
                             THEN store[key].expiresAt ELSE NoExpiry]
       ELSE store[k]]

\* redis.expire(key, seconds): the store after it
RedisExpire(store, key, seconds, now) ==
  IF Live(store, key, now)
    THEN [store EXCEPT ![key].expiresAt = now + seconds]
    ELSE store

\* redis.ttl(key): -2 for a key the store does not hold, -1 for a key
\* without a time to live
RedisTtl(store, key, now) ==
  IF ~Live(store, key, now) THEN -2
  ELSE IF store[key].expiresAt = NoExpiry THEN -1
  ELSE store[key].expiresAt - now

\* variant: a request is allowed only below the limit
AllowedBelow(current, limit) == current < limit

\* success: current <= limit
Allowed(current, limit) == current <= limit

\* Math.max(0, limit - current)
Remaining(current, limit) == IF limit - current < 0 THEN 0 ELSE limit - current

\* the value returned from the try block; reset is kept in seconds
Checked(current, limit, ttl, now) ==
  [threw |-> FALSE, success |-> Allowed(current, limit), limit |-> limit,
   remaining |-> Remaining(current, limit), reset |-> now + ttl]

\* variant: the catch block denies the request
FailClosed(limit, now) ==
  [threw |-> FALSE, success |-> FALSE, limit |-> limit, remaining |-> 0,
   reset |-> now + 3600]

\* the value returned from the catch block ("fail open"); reset is kept in
\* seconds
FailOpen(limit, now) ==
  [threw |-> FALSE, success |-> TRUE, limit |-> limit, remaining |-> limit,
   reset |-> now + 3600]

\* a text that is not JSON, as a key holds after a write that was cut short
\* or was made by another program
NotJson == <<Tok("{")>>

\* variant: the catch block of a get rethrows
GetRethrows == [threw |-> TRUE, value |-> Null]

\* catch (error) { console.error(...); return null; } of the getCached*
\* functions
GetCaught == [threw |-> FALSE, value |-> Null]

\* the try/catch of a getCached* function around the reply of redis.get: a
\* rejection and a text JSON.parse rejects both enter the catch block
GetReturn(reply) ==
  IF reply.rejected THEN GetCaught
  ELSE IF ~reply.nil /\ reply.text # <<>> /\ Parse(reply.text).failed
    THEN GetCaught
  ELSE [threw |-> FALSE, value |-> Decode(reply)]

\* catch (error) { console.error(...); } of the setCached* functions
SetCaught == [threw |-> FALSE]

\* ------------------------------------------------------------------ state
\* batchScrapeCompetitors invocations that can be in progress
BatchIds == {1, 2}

VARIABLES
  competitors,   \* competitors[b]: the list of targets passed to batch b
  concurrency,   \* concurrency[b]: the concurrency argument of batch b
  bpc,           \* bpc[b]: where batch b stands
  queue,         \* queue[b]: indices into competitors[b] still to process
  batch,         \* batch[b]: indices of the chunk being awaited
  results,       \* results[b]: the Map name -> ScrapedPrices of batch b
  sc,            \* sc[b][i]: the scrapeCompetitorPrices call for target i
  browser,       \* module variable `browser` of browser.ts: 0 is null
  launched,      \* browsers launched so far are 1..launched
  closedBrowsers,\* launched browsers that are closed
  closing,       \* closing[b]: the browser batch b's closeBrowser is closing
  pages,         \* open pages: [owner |-> <<b, i>>, br |-> browser id]
  setLog,        \* setLog[b][i]: the results.set(name, result) made for i
  closeCalls,    \* closeCalls[b]: closeBrowser() calls made by batch b
  finished,      \* finished[b]: targets of b in the order their scrape ended
  nv,            \* a direct navigateToUrl call: its arguments and its run
  ex,            \* an extraction from one loaded page and its aggregation
  ca,            \* the cache: the clock, the store, the last get
  rl,            \* the rate limiter: clock, limits, store, calls
  xp             \* one site exploration followed turn by turn

vars == <<competitors, concurrency, bpc, queue, batch, results, sc, browser,
          launched, closedBrowsers, closing, pages, setLog, closeCalls,
          finished, nv, ex, ca, rl, xp>>

\* the state of the batch orchestrator, the scrapes and the browser session
batchVars == <<competitors, concurrency, bpc, queue, batch, results, sc,
               browser, launched, closedBrowsers, closing, pages, setLog,
               closeCalls, finished>>

\* the state that belongs to the other components
others == <<nv, ex, ca, rl, xp>>

\* targets a batch is given
TargetPool ==
  { [name |-> "A", website |-> UrlA],
    [name |-> "B", website |-> UrlB],
    [name |-> "A", website |-> UrlC],
    [name |-> "C", website |-> UrlHash] }

\* targets of a one-target batch: every URL fixture
SinglePool ==
  { [name |-> "S", website |-> u] :
      u \in {UrlA, UrlB, UrlC, UrlD, UrlEmpty, UrlHash, UrlFtp, UrlHttpx,
             UrlSearch, UrlMaps, UrlFb, UrlIg, UrlE, UrlHeads} }

\* the exploration of scrapeCompetitorPrices depends on the URL and on
\* whether its page is open; it is tabulated for the URLs of the targets
Websites == { t.website : t \in TargetPool \cup SinglePool }

Explorations ==
  Table([u \in Websites |->
    Table([open \in BOOLEAN |-> Explore([open |-> open], u)])])

SeqsUpTo(S, n) == UNION { [1..m -> S] : m \in 0..n }

TargetLists == SeqsUpTo(TargetPool, MaxTargets) \cup [1..1 -> SinglePool]

IdleScrape ==
  [pc |-> "idle", url |-> <<>>, br |-> 0, res |-> InitialResult(<<>>),
   navs |-> <<>>, fault |-> "none"]

EmptyMap == [x \in {} |-> 0]

\* no navigateToUrl call is being observed
NoNav == [pc |-> "none", url |-> <<>>, retries |-> 0, g |-> <<>>,
          run |-> [ok |-> FALSE, threw |-> FALSE, log |-> <<>>]]

\* the batch state for a list of targets and a concurrency given to batch 1
InitBatch(ts, k, pc1) ==
  /\ competitors = [b \in BatchIds |-> IF b = 1 THEN ts ELSE <<>>]
  /\ concurrency = [b \in BatchIds |-> IF b = 1 THEN k ELSE 1]
  /\ bpc = [b \in BatchIds |-> IF b = 1 THEN pc1 ELSE "unused"]
  /\ queue = [b \in BatchIds |-> <<>>]
  /\ batch = [b \in BatchIds |-> <<>>]
  /\ results = [b \in BatchIds |-> EmptyMap]
  /\ sc = [b \in BatchIds |-> [i \in 1..Len(competitors[b]) |-> IdleScrape]]
  /\ browser = 0
  /\ launched = 0
  /\ closedBrowsers = {}
  /\ closing = [b \in BatchIds |-> 0]
  /\ pages = {}
  /\ setLog = [b \in BatchIds |-> EmptyMap]
  /\ closeCalls = [b \in BatchIds |-> 0]
  /\ finished = [b \in BatchIds |-> <<>>]

\* no extraction is being observed
NoExtract == [pc |-> "none", elements |-> <<>>, order |-> <<>>,
              services |-> <<>>, result |-> InitialResult(<<>>)]

\* no set of a key has reached the store
NoSet == [value |-> Null, at |-> 0, class |-> "none"]

\* no get has been made.  A get keeps what it returned and, in `prior`,
\* the last set of its key that had reached the store before it
NoGet == [class |-> "none", key |-> <<>>, at |-> 0, ok |-> FALSE,
          value |-> Null, prior |-> NoSet, fault |-> "none", threw |-> FALSE]

\* no setCached* call has been made.  A call keeps whether setex reached
\* the store, whether the call threw and whether the store changed
NoSetCall == [class |-> "none", ok |-> FALSE, threw |-> FALSE,
              changed |-> FALSE]

\* the rate limiter before the process serves requests.  incrs lists the
\* calls in the order their redis.incr reached the store
NoLimiter == [pc |-> "off", now |-> 0, limits |-> [free |-> 0], store |-> EmptyMap,
              calls |-> <<>>, incrs |-> <<>>, resets |-> <<>>]

\* the document of a page that has loaded nothing
BlankDocument == [up |-> TRUE, throws |-> FALSE, services |-> <<>>, links |-> <<>>]

\* no exploration is being followed
NoExplore == [pc |-> "none", websiteUrl |-> <<>>, paths |-> <<>>,
              links |-> <<>>, found |-> <<>>, st |-> StartExplore,
              doc |-> BlankDocument,
              result |-> InitialResult(<<>>)]

\* the cache at clock 0 with an empty store.  written[key] is the value,
\* the instant and the class of the last set that reached the store
NoCache == [now |-> 0, store |-> EmptyMap, written |-> EmptyMap, sets |-> 0,
            last |-> NoGet, lastSet |-> NoSetCall]

Init ==
  /\ \E ts \in TargetLists : \E k \in 1..MaxConcurrency :
       InitBatch(ts, k, "init")
  /\ nv = NoNav
  /\ ex = NoExtract
  /\ ca = NoCache
  /\ rl = NoLimiter
  /\ xp = NoExplore

\* ------------------------------------------------ scrapeCompetitorPrices
\* browser && browser.isConnected()
BrowserLive == browser # 0 /\ browser \notin closedBrowsers

\* the synchronous start of scrapeCompetitorPrices(websiteUrl, name): the
\* early returns, then createPage() -> getBrowser() up to its first await
StartScrape(websiteUrl) ==
  IF IsRejectedUrl(websiteUrl)
    THEN [IdleScrape EXCEPT !.pc = "done", !.url = websiteUrl,
                            !.res = InitialResult(websiteUrl)]
  ELSE IF BrowserLive
    THEN [IdleScrape EXCEPT !.pc = "newPage", !.url = websiteUrl,
                            !.br = browser,
                            !.res = InitialResult(websiteUrl)]
  ELSE [IdleScrape EXCEPT !.pc = "launching", !.url = websiteUrl,
                          !.res = InitialResult(websiteUrl)]

\* variant: createPage() is awaited outside the try block, so its rejection
\* leaves scrapeCompetitorPrices
CreatePageThrows(s, what) == [s EXCEPT !.pc = "threw", !.fault = what]

\* createPage() rejected: the catch logs, the finally finds `page` unset,
\* and the initial result is returned
CreatePageFailed(s, what) == [s EXCEPT !.pc = "done", !.fault = what]

\* puppeteer.launch() settles for the getBrowser() call of scrape <<b, i>>
LaunchDone(s) ==
  LET b == s[1]
      i == s[2]
  IN
  /\ sc[b][i].pc = "launching"
  /\ \E ok \in BOOLEAN :
       IF ok
         THEN /\ launched' = launched + 1
              /\ browser' = launched + 1
              /\ sc' = [sc EXCEPT ![b][i].pc = "newPage",
                                  ![b][i].br = launched + 1]
         ELSE /\ sc' = [sc EXCEPT ![b][i] = CreatePageFailed(@, "launch")]
              /\ UNCHANGED <<launched, browser>>
  /\ finished' = IF sc'[b][i].pc = "newPage" THEN finished
                 ELSE [finished EXCEPT ![b] = Append(@, i)]
  /\ UNCHANGED <<others, competitors, concurrency, bpc, queue, batch, results,
                 closedBrowsers, closing, pages, setLog, closeCalls>>

\* browser.newPage() settles; it can only resolve on a connected browser
NewPageDone(s) ==
  LET b == s[1]
      i == s[2]
  IN
  /\ sc[b][i].pc = "newPage"
  /\ \E ok \in BOOLEAN :
       IF ok /\ sc[b][i].br \notin closedBrowsers
         THEN /\ pages' = pages \cup {[owner |-> <<b, i>>, br |-> sc[b][i].br]}
              /\ sc' = [sc EXCEPT ![b][i].pc = "configure"]
         ELSE /\ sc' = [sc EXCEPT ![b][i] = CreatePageFailed(@, "newPage")]
              /\ UNCHANGED pages
  /\ finished' = IF sc'[b][i].pc = "configure" THEN finished
                 ELSE [finished EXCEPT ![b] = Append(@, i)]
  /\ UNCHANGED <<others, competitors, concurrency, bpc, queue, batch, results,
                 browser, launched, closedBrowsers, closing, setLog,
                 closeCalls>>

\* the page of scrape <<b, i>>
PageOf(b, i) == [owner |-> <<b, i>>, br |-> sc[b][i].br]

\* setRequestInterception / setUserAgent / setViewport /
\* setExtraHTTPHeaders settle; when one rejects createPage rejects and the
\* page it opened is referenced by nobody
ConfigureDone(s) ==
  LET b == s[1]
      i == s[2]
  IN
  /\ sc[b][i].pc = "configure"
  /\ \E ok \in BOOLEAN :
       IF ok /\ PageOf(b, i) \in pages
         THEN sc' = [sc EXCEPT ![b][i].pc = "exploring"]
         ELSE sc' = [sc EXCEPT ![b][i] = CreatePageFailed(@, "configure")]
  /\ finished' = IF sc'[b][i].pc = "exploring" THEN finished
                 ELSE [finished EXCEPT ![b] = Append(@, i)]
  /\ UNCHANGED <<others, competitors, concurrency, bpc, queue, batch, results,
                 browser, launched, closedBrowsers, closing, pages, setLog,
                 closeCalls>>

\* the slot of a scrape whose exploration ended in st: the result is
\* processed and control is about to enter the finally block
Explored(slot, st) ==
  [slot EXCEPT !.pc = "closingPage",
               !.res = Aggregate(slot.url, st),
               !.navs = st.navs,
               !.fault = IF st.loaded = AboutBlank THEN "navigation" ELSE @]

\* the body of the try block after createPage(): STEP 1, STEP 2 and the
\* processing of the results; control then enters the finally block, which
\* calls page.close()
ScrapeBody(s) ==
  LET b == s[1]
      i == s[2]
  IN
  /\ sc[b][i].pc = "exploring"
  /\ sc' = [sc EXCEPT ![b][i] =
              Explored(@, Explorations[@.url][PageOf(b, i) \in pages])]
  /\ UNCHANGED <<others, competitors, concurrency, bpc, queue, batch, results,
                 browser, launched, closedBrowsers, closing, pages, setLog,
                 closeCalls, finished>>

\* page.close() settles; a rejection is swallowed by .catch(() => {})
ClosePageDone(s) ==
  LET b == s[1]
      i == s[2]
  IN
  /\ sc[b][i].pc = "closingPage"
  /\ \E ok \in BOOLEAN :
       pages' = IF ok THEN pages \ {PageOf(b, i)} ELSE pages
  /\ sc' = [sc EXCEPT ![b][i].pc = "done"]
  /\ finished' = [finished EXCEPT ![b] = Append(@, i)]
  /\ UNCHANGED <<others, competitors, concurrency, bpc, queue, batch, results,
                 browser, launched, closedBrowsers, closing, setLog,
                 closeCalls>>

\* ------------------------------------------------ batchScrapeCompetitors
Min(a, b) == IF a < b THEN a ELSE b

\* Map.prototype.set
MapSet(m, k, v) == [x \in DOMAIN m \cup {k} |-> IF x = k THEN v ELSE m[x]]

\* variant: every target of the chunk is given batchResults[0]
BatchResultOfFirst(b, i) == sc[b][batch[b][1]].res

\* batchResults[idx] for the target competitors[b][i] of the chunk
BatchResult(b, i) == sc[b][i].res

\* variant: only the first target of the chunk is recorded
RecordFirstOnly(b, chunk, m) ==
  IF chunk = <<>> THEN m
  ELSE MapSet(m, competitors[b][Head(chunk)].name,
              sc[b][Head(chunk)].res)

\* batch.forEach((comp, idx) => results.set(comp.name, batchResults[idx]))
RECURSIVE RecordChunk(_, _, _)
RecordChunk(b, chunk, m) ==
  IF chunk = <<>> THEN m
  ELSE RecordChunk(b, Tail(chunk),
                   MapSet(m, competitors[b][Head(chunk)].name,
                          BatchResult(b, Head(chunk))))

RECURSIVE LogChunk(_, _, _)
LogChunk(b, chunk, log) ==
  IF chunk = <<>> THEN log
  ELSE LogChunk(b, Tail(chunk),
                MapSet(log, Head(chunk),
                       [name |-> competitors[b][Head(chunk)].name,
                        result |-> BatchResult(b, Head(chunk))]))

\* variant: the whole queue is taken at once
SpliceAll(q, k) == Len(q)

\* queue.splice(0, concurrency) removes this many items
SpliceCount(q, k) == IF k < 0 THEN 0 ELSE Min(k, Len(q))

\* variant: the loop also ends when the concurrency is not positive
LoopGuarded(b, q) == Len(q) > 0 /\ concurrency[b] >= 1

\* while (queue.length > 0)
LoopContinues(b, q) == Len(q) > 0

\* one evaluation of `while (queue.length > 0)` and what follows it up to
\* the next await: either the next chunk is spliced off and its scrapes are
\* started, or closeBrowser() is called
RunLoop(b, q) ==
  IF LoopContinues(b, q)
    THEN LET n == SpliceCount(q, concurrency[b])
             chunk == SubSeq(q, 1, n)
         IN /\ queue' = [queue EXCEPT ![b] = SubSeq(q, n + 1, Len(q))]
            /\ batch' = [batch EXCEPT ![b] = chunk]
            /\ sc' = [sc EXCEPT ![b] =
                       [i \in DOMAIN sc[b] |->
                          IF \E j \in 1..Len(chunk) : chunk[j] = i
                            THEN StartScrape(competitors[b][i].website)
                            ELSE sc[b][i]]]
            /\ finished' = [finished EXCEPT ![b] =
                 @ \o SelectSeq(chunk, LAMBDA i :
                                  IsRejectedUrl(competitors[b][i].website))]
            /\ bpc' = [bpc EXCEPT ![b] = "awaiting"]
            /\ UNCHANGED <<closing, closeCalls>>
    ELSE /\ closeCalls' = [closeCalls EXCEPT ![b] = @ + 1]
         /\ IF browser # 0
              THEN /\ closing' = [closing EXCEPT ![b] = browser]
                   /\ bpc' = [bpc EXCEPT ![b] = "closing"]
              ELSE /\ bpc' = [bpc EXCEPT ![b] = "returned"]
                   /\ UNCHANGED closing
         /\ queue' = [queue EXCEPT ![b] = q]
         /\ UNCHANGED <<batch, sc, finished>>

\* the call batchScrapeCompetitors(competitors, concurrency)
BatchCall(b) ==
  /\ bpc[b] = "init"
  /\ RunLoop(b, [i \in 1..Len(competitors[b]) |-> i])
  /\ UNCHANGED <<others, competitors, concurrency, results, browser, launched,
                 closedBrowsers, pages, setLog>>

\* variant: the batch is aborted when a target reports a failure
ChunkRejectedOnFailure(b) ==
  \E j \in 1..Len(batch[b]) :
    sc[b][batch[b][j]].pc = "done" /\ sc[b][batch[b][j]].fault # "none"

\* variant: Promise.race in place of Promise.all
ChunkResolvedAny(b) ==
  \E j \in 1..Len(batch[b]) : sc[b][batch[b][j]].pc = "done"

\* the Promise.all of the chunk settles: it rejects as soon as one scrape
\* has thrown and resolves when every scrape has returned
ChunkRejected(b) == \E j \in 1..Len(batch[b]) : sc[b][batch[b][j]].pc = "threw"
ChunkResolved(b) == \A j \in 1..Len(batch[b]) : sc[b][batch[b][j]].pc = "done"

ChunkDone(b) ==
  /\ bpc[b] = "awaiting"
  /\ IF ChunkRejected(b)
       THEN /\ bpc' = [bpc EXCEPT ![b] = "thrown"]
            /\ UNCHANGED <<queue, batch, results, sc, closing, setLog,
                           closeCalls, finished>>
       ELSE /\ ChunkResolved(b)
            /\ results' = [results EXCEPT ![b] = RecordChunk(b, batch[b], @)]
            /\ setLog' = [setLog EXCEPT ![b] = LogChunk(b, batch[b], @)]
            /\ RunLoop(b, queue[b])
  /\ UNCHANGED <<others, competitors, concurrency, browser, launched,
                 closedBrowsers, pages>>

\* variant: closing a browser leaves its pages open
PagesKept(x) == pages

\* the open pages once browser x has closed: browser.close() closes every
\* page of the browser, whichever call opened it
PagesAfterClose(x) == {p \in pages : p.br # x}

\* browser.close() of closeBrowser() settles.  Closing a browser closes its
\* pages; `browser = null` runs only when close() resolved, otherwise the
\* rejection leaves batchScrapeCompetitors through its un-guarded await
CloseBrowserDone(b) ==
  /\ bpc[b] = "closing"
  /\ \E ok \in BOOLEAN :
       IF ok
         THEN /\ closedBrowsers' = closedBrowsers \cup {closing[b]}
              /\ pages' = PagesAfterClose(closing[b])
              /\ browser' = 0
              /\ bpc' = [bpc EXCEPT ![b] = "returned"]
         ELSE /\ bpc' = [bpc EXCEPT ![b] = "thrown"]
              /\ UNCHANGED <<closedBrowsers, pages, browser>>
  /\ UNCHANGED <<others, competitors, concurrency, queue, batch, results, sc,
                 launched, closing, setLog, closeCalls, finished>>

\* the scrapeCompetitorPrices calls of all batches
ScrapeIds == UNION { { <<b, i>> : i \in DOMAIN sc[b] } : b \in BatchIds }

Next ==
  \/ \E b \in BatchIds : BatchCall(b)
  \/ \E b \in BatchIds : ChunkDone(b)
  \/ \E b \in BatchIds : CloseBrowserDone(b)
  \/ \E s \in ScrapeIds : LaunchDone(s)
  \/ \E s \in ScrapeIds : NewPageDone(s)
  \/ \E s \in ScrapeIds : ConfigureDone(s)
  \/ \E s \in ScrapeIds : ScrapeBody(s)
  \/ \E s \in ScrapeIds : ClosePageDone(s)

Spec == Init /\ [][Next]_vars

\* ------------------------------------------------- two overlapping batches
\* two batchScrapeCompetitors calls are made before either has returned,
\* as two requests served by one process make them.  The first is given up
\* to MaxTargets targets, the second one target; both scrape their targets
\* one at a time
OverlapTarget == [name |-> "A", website |-> UrlA]

InitOverlap ==
  /\ \E ts \in SeqsUpTo({OverlapTarget}, MaxTargets) :
       competitors = [b \in BatchIds |->
                        IF b = 1 THEN ts ELSE <<OverlapTarget>>]
  /\ concurrency = [b \in BatchIds |-> 1]
  /\ bpc = [b \in BatchIds |-> "init"]
  /\ queue = [b \in BatchIds |-> <<>>]
  /\ batch = [b \in BatchIds |-> <<>>]
  /\ results = [b \in BatchIds |-> EmptyMap]
  /\ sc = [b \in BatchIds |-> [i \in 1..Len(competitors[b]) |-> IdleScrape]]
  /\ browser = 0
  /\ launched = 0
  /\ closedBrowsers = {}
  /\ closing = [b \in BatchIds |-> 0]
  /\ pages = {}
  /\ setLog = [b \in BatchIds |-> EmptyMap]
  /\ closeCalls = [b \in BatchIds |-> 0]
  /\ finished = [b \in BatchIds |-> <<>>]
  /\ nv = NoNav
  /\ ex = NoExtract
  /\ ca = NoCache
  /\ rl = NoLimiter
  /\ xp = NoExplore

SpecOverlap == InitOverlap /\ [][Next]_vars

\* ------------------------------------------- a batch with any concurrency
\* batchScrapeCompetitors is handed a concurrency that may be zero or
\* negative: the argument is a plain number
Concurrencies == -1..MaxConcurrency

InitAnyConcurrency ==
  /\ \E ts \in TargetLists : \E k \in Concurrencies :
       InitBatch(ts, k, "init")
  /\ nv = NoNav
  /\ ex = NoExtract
  /\ ca = NoCache
  /\ rl = NoLimiter
  /\ xp = NoExplore

SpecAnyConcurrency == InitAnyConcurrency /\ [][Next]_vars

\* --------------------------------------- one exploration, turn by turn
\* STEP 1 and STEP 2 of scrapeCompetitorPrices on a page that stays open,
\* one navigateToUrl call at a time.  What the web answers is open: every
\* load of a URL the request filter lets through resolves or rejects, and
\* a load that resolves shows any of PageDocs.  A document stays what it
\* is while it is shown.  At most MaxLoads loads of a scrape resolve.
ExploreUrls == {UrlC, UrlB, UrlIg, UrlFb, UrlHeads}

ServiceLists == {<<>>, <<SvcGel>>, <<SvcAcr>>, <<SvcGel, SvcPed>>}

LinkLists == {<<>>, UrlELinks}

PageDocs ==
  { [up |-> TRUE, throws |-> FALSE, services |-> sv, links |-> ls] :
      sv \in ServiceLists, ls \in LinkLists }
  \cup { [up |-> TRUE, throws |-> TRUE, services |-> <<>>, links |-> <<>>] }

\* the loads of the scrape that resolved
LoadsResolved(st) ==
  Len(SelectSeq(st.log, LAMBDA e : e.kind = "navigate" /\ e.ok))

\* how the loads of url can settle
Answers(url, st) ==
  IF RequestBlocked(url) THEN {"blocked"}
  ELSE IF LoadsResolved(st) < MaxLoads THEN {"ok", "error"}
  ELSE {"error"}

\* every attempt of a navigateToUrl call settles the same way; the
\* alternate URL of a blocked URL holds the pattern too
Attempts(answer, retries) ==
  [i \in 1..retries |->
     [primary |-> answer,
      alt |-> IF answer = "blocked" THEN "blocked" ELSE "none"]]

\* navigateToUrl(page, url, retries) when the loads of url settle as answer
NavigateAs(answer, url, retries) ==
  NavReturn(url, retries, NavRun(Attempts(answer, retries), url, retries))

\* the documents the page can show after a navigateToUrl call whose loads
\* settled as answer: any document, or the one it showed before
Shown(x, answer) == IF answer = "ok" THEN PageDocs ELSE {x.doc}

\* the exploration once control has left STEP 2: "Process results"
Processed(x) ==
  IF x.pc = "done"
    THEN [x EXCEPT !.result = Aggregate(x.websiteUrl, x.st)]
    ELSE x

InitExplore ==
  /\ InitBatch(<<>>, 1, "unused")
  /\ nv = NoNav
  /\ ex = NoExtract
  /\ ca = NoCache
  /\ rl = NoLimiter
  /\ \E u \in ExploreUrls :
       xp = [NoExplore EXCEPT !.pc = "paths", !.websiteUrl = u,
                              !.paths = pathsToTry(u),
                              !.result = InitialResult(u)]

\* the exploration after a turn of STEP 1 on the document doc
PathTurned(x, doc, turn) ==
  [x EXCEPT !.st = turn.st, !.doc = doc, !.paths = Tail(@),
            !.pc = IF turn.stop \/ Tail(x.paths) = <<>> THEN "step2"
                   ELSE "paths"]

PathNavigated(x, tryUrl, nav, doc) ==
  PathTurned(x, doc,
             PathTurn(x.websiteUrl, tryUrl, Navigated(x.st, tryUrl, nav),
                      nav.ok, doc))

\* one turn of the loop of STEP 1
PathStep ==
  /\ xp.pc = "paths"
  /\ \E a \in Answers(TryUrl(xp.websiteUrl, Head(xp.paths)), xp.st) :
       \E d \in Shown(xp, a) :
         xp' = PathNavigated(xp, TryUrl(xp.websiteUrl, Head(xp.paths)),
                 NavigateAs(a, TryUrl(xp.websiteUrl, Head(xp.paths)), 3), d)
  /\ UNCHANGED <<batchVars, nv, ex, ca, rl>>

\* the exploration after the reload of STEP 2 and the link discovery;
\* found keeps linksAndButtons
Discovered(x, st1, doc) ==
  Processed(
    [x EXCEPT !.st = st1, !.doc = doc, !.links = DiscoveredLinks(doc),
              !.found = IF doc.throws THEN <<>> ELSE doc.links,
              !.pc = IF DiscoveredLinks(doc) = <<>> THEN "done" ELSE "links"])

Reloaded(x, nav, d) ==
  Discovered(x, Navigated(x.st, x.websiteUrl, nav), d)

\* the test of STEP 2, its navigateToUrl(page, websiteUrl, 3) and the link
\* discovery
FallbackStep ==
  /\ xp.pc = "step2"
  /\ IF FallbackRuns(xp.st, xp.websiteUrl)
       THEN \E a \in Answers(xp.websiteUrl, xp.st) : \E d \in Shown(xp, a) :
              xp' = Reloaded(xp, NavigateAs(a, xp.websiteUrl, 3), d)
       ELSE xp' = Processed([xp EXCEPT !.pc = "done"])
  /\ UNCHANGED <<batchVars, nv, ex, ca, rl>>

\* the exploration after a turn of STEP 2 on the document doc
LinkTurned(x, doc, turn) ==
  Processed(
    [x EXCEPT !.st = turn.st, !.doc = doc, !.links = Tail(@),
              !.pc = IF turn.stop \/ Tail(x.links) = <<>> THEN "done"
                     ELSE "links"])

LinkNavigated(x, href, nav, doc) ==
  LinkTurned(x, doc, LinkTurn(href, Navigated(x.st, href, nav), doc))

\* one turn of the loop of STEP 2
LinkStep ==
  /\ xp.pc = "links"
  /\ \E a \in Answers(Head(xp.links), xp.st) : \E d \in Shown(xp, a) :
       xp' = LinkNavigated(xp, Head(xp.links),
                           NavigateAs(a, Head(xp.links), 2), d)
  /\ UNCHANGED <<batchVars, nv, ex, ca, rl>>

NextExplore == PathStep \/ FallbackStep \/ LinkStep

SpecExplore == InitExplore /\ [][NextExplore]_vars

\* ----------------------------------------------- navigateToUrl on its own
\* what one attempt slot can meet: the load succeeds, fails, or is blocked
\* by the client and the alternate-scheme load then succeeds or fails
AttemptOutcomes ==
  { [primary |-> "ok", alt |-> "none"],
    [primary |-> "error", alt |-> "none"],
    [primary |-> "blocked", alt |-> "ok"],
    [primary |-> "blocked", alt |-> "error"] }

\* a caller is about to call navigateToUrl(page, url, retries); g is what
\* the attempts will meet
InitNav ==
  /\ InitBatch(<<>>, 1, "unused")
  /\ \E url \in {UrlA, UrlB} : \E retries \in 0..MaxRetries :
       \E g \in [1..retries -> AttemptOutcomes] :
         nv = [NoNav EXCEPT !.pc = "called", !.url = url,
                            !.retries = retries, !.g = g]
  /\ ex = NoExtract
  /\ ca = NoCache
  /\ rl = NoLimiter
  /\ xp = NoExplore

\* await navigateToUrl(page, url, retries)
NavigateCall ==
  /\ nv.pc = "called"
  /\ LET run == NavRun(nv.g, nv.url, nv.retries)
     IN nv' = [nv EXCEPT !.run = run,
                         !.pc = IF run.threw THEN "threw" ELSE "returned"]
  /\ UNCHANGED <<batchVars, ex, ca, rl, xp>>

NextNav == NavigateCall

SpecNav == InitNav /\ [][NextNav]_vars

\* ---------------------------------- extraction and aggregation of one page
\* the elements a loaded page can hold: a text, and whether one of the
\* selectors of the structural strategy matches the element
Elements == [text : TextPool, listed : BOOLEAN]

\* the home page of a site has loaded; order is the order in which
\* detectServiceType looks for the categories
InitExtract ==
  /\ InitBatch(<<>>, 1, "unused")
  /\ nv = NoNav
  /\ \E elements \in SeqsUpTo(Elements, MaxElements) :
       \E order \in TypeOrders :
         ex = [NoExtract EXCEPT !.pc = "loaded", !.elements = elements,
                                !.order = order]
  /\ ca = NoCache
  /\ rl = NoLimiter
  /\ xp = NoExplore

\* the aggregation of scrapeCompetitorPrices over the services
\* extractAllServices returned
Extracted(e, services) ==
  [e EXCEPT !.pc = "done", !.services = services,
            !.result = Aggregate(UrlA,
                         [StartExplore EXCEPT !.bestServices = services,
                                              !.successfulUrl = UrlA])]

\* extractAllServices on the loaded page, then the aggregation of
\* scrapeCompetitorPrices over what it returned
ExtractCall ==
  /\ ex.pc = "loaded"
  /\ ex' = Extracted(ex, extractAllServices(ex.elements, ex.order))
  /\ UNCHANGED <<batchVars, nv, ca, rl, xp>>

NextExtract == ExtractCall

SpecExtract == InitExtract /\ [][NextExtract]_vars

\* ------------------------------------------------------- the cache in use
\* addresses, coordinates (in units of 0.00001 degrees, with a radius) and
\* place identifiers the request layer asks about
AddrMain == <<" ", "M", "a", "i", "n", " ", "S", "t">>
AddrMainLower == <<"m", "a", "i", "n", " ", "s", "t">>
AddrElm == <<"E", "l", "m", " ", "S", "t">>
Addresses == {AddrMain, AddrMainLower, AddrElm}

Searches ==
  { [lat |-> 4071234, lng |-> -7400561, radius |-> 5000],
    [lat |-> 4071226, lng |-> -7400561, radius |-> 5000] }

PlaceIds == { <<"C", "h", "I", "J", "1">> }

\* values the request layer caches
GeoMain ==
  JObj(<<Member("lat", JNum(40)), Member("lng", JNum(-74)),
         Member("formattedAddress", JStr("Main St, NY"))>>)
PlaceA ==
  JObj(<<Member("placeId", JStr("ChIJ1")), Member("name", JStr("Nail Bar")),
         Member("rating", JNum(5))>>)
GeocodingResults == {GeoMain}
PlaceSearchResults == {JArr(<<>>), JArr(<<PlaceA>>)}
PlaceDetails == {PlaceA}

InitCache ==
  /\ InitBatch(<<>>, 1, "unused")
  /\ nv = NoNav
  /\ ex = NoExtract
  /\ ca = NoCache
  /\ rl = NoLimiter
  /\ xp = NoExplore

\* the cache after a setCached* call whose setex reached the store (ok) or
\* rejected: store2 is the store the call leaves
AfterSet(c, class, key, value, ok, store2) ==
  [c EXCEPT
     !.sets = @ + 1,
     !.store = store2,
     !.written =
       IF ok
         THEN [k \in DOMAIN @ \cup {key} |->
                 IF k = key
                   THEN [value |-> value, at |-> c.now, class |-> class]
                   ELSE @[k]]
         ELSE @,
     !.lastSet = [class |-> class, ok |-> ok,
                  threw |-> IF ok THEN FALSE ELSE SetCaught.threw,
                  changed |-> store2 # c.store]]

\* the body of the three setCached* functions: the setex call reaches the
\* store or rejects, and a rejection is caught and logged
SetCached(class, key, value) ==
  /\ ca.sets < MaxSets
  /\ \E ok \in BOOLEAN :
       ca' = AfterSet(ca, class, key, value, ok,
                      IF ok
                        THEN RedisSetex(ca.store, key, CACHE_TTL[class],
                                        Stringify(value), ca.now)
                        ELSE ca.store)
  /\ UNCHANGED <<batchVars, nv, ex, rl, xp>>

\* what redis.get(key) settles with: it rejects, or it answers what the
\* working store holds, or it answers a text that is not JSON
RedisReply(store, key, now, fault) ==
  IF fault = "rejected" THEN [rejected |-> TRUE, nil |-> TRUE, text |-> <<>>]
  ELSE IF fault = "undecodable"
    THEN [rejected |-> FALSE, nil |-> FALSE, text |-> NotJson]
  ELSE [rejected |-> FALSE, nil |-> RedisGet(store, key, now).nil,
        text |-> RedisGet(store, key, now).text]

\* the record kept of a get that ended with `ret`
Got(class, key, fault, written, ret) ==
  [class |-> class, key |-> key, at |-> ca.now, ok |-> fault = "none",
   value |-> ret.value,
   prior |-> IF key \in DOMAIN written THEN written[key] ELSE NoSet,
   fault |-> fault, threw |-> ret.threw]

\* the body of the three getCached* functions: the get call answers or
\* rejects, and what enters the catch block gives null
GetCached(class, key) ==
  /\ \E fault \in {"none", "rejected", "undecodable"} :
       ca' = [ca EXCEPT !.last =
                Got(class, key, fault, ca.written,
                    GetReturn(RedisReply(ca.store, key, ca.now, fault)))]
  /\ UNCHANGED <<batchVars, nv, ex, rl, xp>>

setCachedGeocoding ==
  \E address \in Addresses : \E result \in GeocodingResults :
    SetCached("GEOCODING", GeocodeKey(address), result)

getCachedGeocoding ==
  \E address \in Addresses : GetCached("GEOCODING", GeocodeKey(address))

setCachedPlacesSearch ==
  \E s \in Searches : \E list \in PlaceSearchResults :
    SetCached("PLACES_SEARCH", PlacesKey(s.lat, s.lng, s.radius), list)

getCachedPlacesSearch ==
  \E s \in Searches :
    GetCached("PLACES_SEARCH", PlacesKey(s.lat, s.lng, s.radius))

setCachedPlaceDetails ==
  \E placeId \in PlaceIds : \E details \in PlaceDetails :
    SetCached("PLACE_DETAILS", PlaceDetailsKey(placeId), details)

getCachedPlaceDetails ==
  \E placeId \in PlaceIds :
    GetCached("PLACE_DETAILS", PlaceDetailsKey(placeId))

\* time passes, up to the last second before an entry expires or up to its
\* expiry
Elapse ==
  /\ \E k \in DOMAIN ca.store :
       \E t \in {ca.store[k].expiresAt - 1, ca.store[k].expiresAt} :
         /\ t > ca.now
         /\ ca' = [ca EXCEPT !.now = t]
  /\ UNCHANGED <<batchVars, nv, ex, rl, xp>>

NextCache ==
  \/ setCachedGeocoding
  \/ getCachedGeocoding
  \/ setCachedPlacesSearch
  \/ getCachedPlacesSearch
  \/ setCachedPlaceDetails
  \/ getCachedPlaceDetails
  \/ Elapse

SpecCache == InitCache /\ [][NextCache]_vars

\* ------------------------------------------------- the rate limiter in use
\* identities the request layer checks
UserAnn == <<"a", "n", "n">>
UserBob == <<"b", "o", "b">>
\* "ann:x", an identity of the form provider-prefix:name
UserAnnX == <<"a", "n", "n", ":", "x">>
Users == {UserAnn, UserBob, UserAnnX}

\* the subscription tier the request layer passes for each identity
TierOf == (UserAnn :> "free") @@ (UserBob :> "pro") @@ (UserAnnX :> "free")

\* environments the process is started in
Environments ==
  { [RATE_LIMIT_FREE |-> <<"1">>, RATE_LIMIT_PRO |-> <<"2">>,
     RATE_LIMIT_ENTERPRISE |-> Unset] }

\* the start of a clock hour, in seconds since the epoch
HourStart == 1699999200

\* the instants at which the clock is read: the start of an hour, 50 s and
\* 100 s into it, and the start of the next hour
Instants == {HourStart, HourStart + 50, HourStart + 100, HourStart + 3600}

\* a checkRateLimit call that has not settled
NoReturn == [threw |-> FALSE, success |-> FALSE, limit |-> 0, remaining |-> 0,
             reset |-> 0]

InitLimiter ==
  /\ InitBatch(<<>>, 1, "unused")
  /\ nv = NoNav
  /\ ex = NoExtract
  /\ ca = NoCache
  /\ \E env \in Environments :
       rl = [NoLimiter EXCEPT !.pc = "serving", !.now = HourStart,
                              !.limits = RATE_LIMITS(env)]
  /\ xp = NoExplore

\* checkRateLimit(userId, tier) up to its first await: limit and key are
\* computed and redis.incr(key) is issued
CheckStart ==
  /\ rl.pc = "serving"
  /\ Len(rl.calls) + Len(rl.resets) < MaxChecks
  /\ Cardinality({c \in DOMAIN rl.calls : rl.calls[c].pc # "done"})
       < MaxInFlight
  /\ \E userId \in Users :
       rl' = [rl EXCEPT !.calls =
                Append(@, [userId |-> userId, tier |-> TierOf[userId],
                           limit |-> rl.limits[TierOf[userId]],
                           key |-> RateKey(userId, rl.now), at |-> rl.now,
                           pc |-> "incr", current |-> 0, fault |-> "none",
                           ret |-> NoReturn])]
  /\ UNCHANGED <<batchVars, nv, ex, ca, xp>>

\* the limiter after call c entered its catch block at store operation op
Caught(r, c, op) ==
  [r EXCEPT !.calls[c].pc = "done", !.calls[c].fault = op,
            !.calls[c].ret = FailOpen(r.calls[c].limit, r.now)]

\* the limiter after redis.incr of call c answered
Incremented(r, c, store2) ==
  [r EXCEPT !.store = store2,
            !.incrs = Append(@, c),
            !.calls[c].current = store2[r.calls[c].key].count,
            !.calls[c].pc = IF store2[r.calls[c].key].count = 1
                              THEN "expire" ELSE "ttl"]

\* await redis.incr(key) settles
IncrDone(c) ==
  /\ c \in DOMAIN rl.calls
  /\ rl.calls[c].pc = "incr"
  /\ \E ok \in BOOLEAN :
       rl' = IF ok
               THEN Incremented(rl, c,
                                RedisIncr(rl.store, rl.calls[c].key, rl.now))
               ELSE Caught(rl, c, "incr")
  /\ UNCHANGED <<batchVars, nv, ex, ca, xp>>

\* await redis.expire(key, 3600) settles
ExpireDone(c) ==
  /\ c \in DOMAIN rl.calls
  /\ rl.calls[c].pc = "expire"
  /\ \E ok \in BOOLEAN :
       rl' = IF ok
               THEN [rl EXCEPT
                       !.store = RedisExpire(@, rl.calls[c].key, 3600, rl.now),
                       !.calls[c].pc = "ttl"]
               ELSE Caught(rl, c, "expire")
  /\ UNCHANGED <<batchVars, nv, ex, ca, xp>>

\* await redis.ttl(key) settles and the call returns
TtlDone(c) ==
  /\ c \in DOMAIN rl.calls
  /\ rl.calls[c].pc = "ttl"
  /\ \E ok \in BOOLEAN :
       rl' = IF ok
               THEN [rl EXCEPT
                       !.calls[c].pc = "done",
                       !.calls[c].ret =
                         Checked(rl.calls[c].current, rl.calls[c].limit,
                                 RedisTtl(rl.store, rl.calls[c].key, rl.now),
                                 rl.now)]
               ELSE Caught(rl, c, "ttl")
  /\ UNCHANGED <<batchVars, nv, ex, ca, xp>>

\* the clock reaches a later instant.  The instants lie 50 s and more
\* apart and a store operation takes milliseconds, so no call is in
\* progress across two of them
Tick ==
  /\ rl.pc = "serving"
  /\ \A c \in DOMAIN rl.calls : rl.calls[c].pc = "done"
  /\ \A r \in DOMAIN rl.resets : rl.resets[r].pc = "done"
  /\ \E t \in Instants :
       /\ t > rl.now
       /\ rl' = [rl EXCEPT !.now = t]
  /\ UNCHANGED <<batchVars, nv, ex, ca, xp>>

\* resetRateLimit(userId) up to its first await: redis.keys(pattern) is
\* issued.  A reset keeps the store as redis.del found it and left it, and
\* the number of increments made before
ResetStart ==
  /\ rl.pc = "serving"
  /\ Len(rl.calls) + Len(rl.resets) < MaxChecks
  /\ \E userId \in Users :
       rl' = [rl EXCEPT !.resets =
                Append(@, [userId |-> userId, pc |-> "keys", keys |-> {},
                           threw |-> FALSE, before |-> EmptyMap,
                           after |-> EmptyMap, incrsAt |-> 0])]
  /\ UNCHANGED <<batchVars, nv, ex, ca, xp>>

\* a rejected store operation leaves resetRateLimit: it has no try block
ResetThrew(r, n) == [r EXCEPT !.resets[n].pc = "done", !.resets[n].threw = TRUE]

\* the reset after redis.keys answered: `if (keys.length > 0)`
KeysFound(r, n, keys) ==
  [r EXCEPT !.resets[n].keys = keys,
            !.resets[n].before = LiveStore(r.store, r.now),
            !.resets[n].after = LiveStore(r.store, r.now),
            !.resets[n].incrsAt = Len(r.incrs),
            !.resets[n].pc = IF keys = {} THEN "done" ELSE "del"]

\* await redis.keys(pattern) settles
ResetKeysDone(n) ==
  /\ n \in DOMAIN rl.resets
  /\ rl.resets[n].pc = "keys"
  /\ \E ok \in BOOLEAN :
       rl' = IF ok
               THEN KeysFound(rl, n,
                      RedisKeys(rl.store, ResetPattern(rl.resets[n].userId),
                                rl.now))
               ELSE ResetThrew(rl, n)
  /\ UNCHANGED <<batchVars, nv, ex, ca, xp>>

\* the limiter after redis.del removed the keys of reset n
Deleted(r, n, store2) ==
  [r EXCEPT !.store = store2,
            !.resets[n].before = LiveStore(r.store, r.now),
            !.resets[n].after = LiveStore(store2, r.now),
            !.resets[n].incrsAt = Len(r.incrs),
            !.resets[n].pc = "done"]

\* await redis.del(...keys) settles and the call returns
ResetDelDone(n) ==
  /\ n \in DOMAIN rl.resets
  /\ rl.resets[n].pc = "del"
  /\ \E ok \in BOOLEAN :
       rl' = IF ok
               THEN Deleted(rl, n, RedisDel(rl.store, rl.resets[n].keys))
               ELSE ResetThrew(rl, n)
  /\ UNCHANGED <<batchVars, nv, ex, ca, xp>>

NextLimiter ==
  \/ CheckStart
  \/ \E c \in 1..MaxChecks : IncrDone(c) \/ ExpireDone(c) \/ TtlDone(c)
  \/ Tick

SpecLimiter == InitLimiter /\ [][NextLimiter]_vars

\* the rate limiter with resetRateLimit calls among the checks
NextReset ==
  \/ NextLimiter
  \/ ResetStart
  \/ \E n \in 1..MaxChecks : ResetKeysDone(n) \/ ResetDelDone(n)

SpecReset == InitLimiter /\ [][NextReset]_vars

\* ------------------------------------------------------------ properties
Targets(b) == 1..Len(competitors[b])

Names(b) == { competitors[b][i].name : i \in Targets(b) }

\* scrapes of batch b that were started and have not ended
InFlight(b) == { i \in Targets(b) : sc[b][i].pc \notin {"idle", "done", "threw"} }

\* open pages that were opened for a scrape of batch b
PagesOf(b) == { p \in pages : p.owner[1] = b }

Max(S) == CHOOSE x \in S : \A y \in S : y <= x

\* a result that reports failure
IsFailure(r) == ~r.success /\ r.confidence = 0

\* C1: the map returned by batchScrape has exactly the targets' names as
\* its keys, for every concurrency k >= 1, k >= |targets| included
C1_KeySetIsTargetNames ==
  \A b \in BatchIds :
    bpc[b] = "returned" => DOMAIN results[b] = Names(b)

C1_Witness ==
  /\ bpc[1] = "returned"
  /\ Cardinality(DOMAIN results[1]) = 2
  /\ concurrency[1] >= Len(competitors[1])

\* C2: the returned map has as many entries as the batch has targets, also
\* when two targets carry the same name
C2_SizeIsTargetCount ==
  \A b \in BatchIds :
    bpc[b] = "returned" => Cardinality(DOMAIN results[b]) = Len(competitors[b])

\* C3: at every moment of a batch at most `concurrency` extractions are in
\* flight and at most `concurrency` pages are open for the batch
C3_AtMostKInFlightAndOpen ==
  \A b \in BatchIds :
    /\ Cardinality(InFlight(b)) <= concurrency[b]
    /\ Cardinality(PagesOf(b)) <= concurrency[b]

\* C4: one batch calls the teardown exactly once, and only when the queue
\* is empty, every target's result is recorded and no extraction of the
\* batch is in flight
C4_TeardownOnceAfterQueueEmpty ==
  \A b \in BatchIds :
    /\ closeCalls[b] <= 1
    /\ bpc[b] \in {"closing", "returned", "thrown"} => closeCalls[b] = 1
    /\ closeCalls[b] = 1 =>
         /\ queue[b] = <<>>
         /\ DOMAIN setLog[b] = Targets(b)
         /\ InFlight(b) = {}
    /\ Cardinality(closedBrowsers) <= 1

C4_Witness ==
  /\ bpc[1] = "returned"
  /\ closeCalls[1] = 1
  /\ closedBrowsers # {}
  /\ Len(competitors[1]) = 2
  /\ concurrency[1] = 1

\* C5: a target whose page creation or navigation failed gets a
\* success=false, confidence=0 result, and the batch still scrapes and
\* records every target before it ends
C5_FailureIsolated ==
  \A b \in BatchIds :
    /\ \A i \in Targets(b) :
         (sc[b][i].pc = "done" /\ sc[b][i].fault # "none")
           => IsFailure(sc[b][i].res)
    /\ bpc[b] \in {"closing", "returned", "thrown"} =>
         \A i \in Targets(b) :
           /\ sc[b][i].pc = "done"
           /\ i \in DOMAIN setLog[b]
           /\ sc[b][i].fault # "none" => IsFailure(setLog[b][i].result)

C5_Witness ==
  /\ bpc[1] = "returned"
  /\ \E i, j \in Targets(1) :
       /\ sc[1][i].fault # "none"
       /\ IsFailure(setLog[1][i].result)
       /\ setLog[1][j].result.success

\* r is a result scrapeCompetitorPrices can produce for the URL
IsResultFor(r, websiteUrl) ==
  \/ r = InitialResult(websiteUrl)
  \/ \E open \in BOOLEAN :
       r = Aggregate(websiteUrl, Explorations[websiteUrl][open])

\* C6: whatever the completion order inside a chunk, what is recorded for
\* a target is its own name with the result of the extraction started for
\* its own URL, and the map holds under each name the last result recorded
\* under it
C6_ResultsPairedWithTargets ==
  \A b \in BatchIds :
    /\ \A i \in DOMAIN setLog[b] :
         /\ setLog[b][i].name = competitors[b][i].name
         /\ sc[b][i].url = competitors[b][i].website
         /\ setLog[b][i].result = sc[b][i].res
         /\ IsResultFor(setLog[b][i].result, competitors[b][i].website)
    /\ \A n \in DOMAIN results[b] :
         LET last == Max({ i \in DOMAIN setLog[b] : setLog[b][i].name = n })
         IN results[b][n] = setLog[b][last].result

\* a chunk of two targets with different results, the second ended first
C6_Witness ==
  /\ finished[1] = <<2, 1>>
  /\ DOMAIN setLog[1] = {1, 2}
  /\ setLog[1][1].result # setLog[1][2].result
  /\ setLog[1][2].result.success

\* C7: batchScrape never throws
C7_BatchNeverThrows == \A b \in BatchIds : bpc[b] # "thrown"

\* C8: scrapePrices never throws and returns a ScrapeResult; when page
\* creation failed (no retry is made) the result is the failure result and
\* no navigation was attempted
C8_ScrapeNeverThrows ==
  \A b \in BatchIds : \A i \in Targets(b) :
    /\ sc[b][i].pc # "threw"
    /\ sc[b][i].pc = "done" =>
         /\ sc[b][i].res.success \in BOOLEAN
         /\ sc[b][i].res.confidence \in 0..3
         /\ sc[b][i].res.success <=> sc[b][i].res.confidence > 0
    /\ sc[b][i].fault \in {"launch", "newPage", "configure"} =>
         /\ sc[b][i].pc = "done"
         /\ sc[b][i].res = InitialResult(competitors[b][i].website)
         /\ sc[b][i].navs = <<>>

C8_Witness ==
  \E i \in Targets(1) :
    /\ sc[1][i].pc = "done"
    /\ sc[1][i].fault = "newPage"
    /\ IsFailure(sc[1][i].res)

\* an http:// or https:// URL
IsHttpUrl(url) ==
  \/ StartsWith(url, <<"h", "t", "t", "p", ":", "/", "/">>)
  \/ StartsWith(url, <<"h", "t", "t", "p", "s", ":", "/", "/">>)

\* C9: a url that is empty, "#", not HTTP(S) or an excluded search/maps URL
\* gets the failure result with the url as source, without a browser
\* launch, a page or a navigation
C9_InvalidUrlNoBrowser ==
  \A b \in BatchIds : \A i \in Targets(b) :
    LET url == competitors[b][i].website
    IN (sc[b][i].pc # "idle" /\
        (url = <<>> \/ url = <<"#">> \/ ~IsHttpUrl(url)
           \/ \E pattern \in invalidUrlPatterns : Includes(url, pattern)))
         => /\ sc[b][i].pc = "done"
            /\ sc[b][i].res = InitialResult(url)
            /\ sc[b][i].navs = <<>>
            /\ sc[b][i].br = 0

\* C10: when scrapePrices has returned, every page it opened is closed
C10_NoPageLeftOpen ==
  \A b \in BatchIds : \A i \in Targets(b) :
    sc[b][i].pc = "done" => ~\E p \in pages : p.owner = <<b, i>>

\* C11: a scrape makes a bounded number of navigation attempts: one
\* navigateToUrl call of 3 attempt slots for each of at most 11 path
\* suffixes, in order, then at most one of 3 slots for the home-page reload
\* and at most 5 of 2 slots for followed links; a slot makes at most 2 loads
C11_BoundedNavigation ==
  \A b \in BatchIds : \A i \in Targets(b) :
    LET navs == sc[b][i].navs
        url == competitors[b][i].website
    IN /\ \A j \in 1..Len(navs) :
            /\ navs[j].retries \in {2, 3}
            /\ navs[j].loads <= 2 * navs[j].retries
       /\ \E n \in 0..Min(Len(SERVICE_PAGE_PATHS), Len(navs)) :
            /\ \A j \in 1..n :
                 /\ navs[j].url = TryUrl(url, SERVICE_PAGE_PATHS[j])
                 /\ navs[j].retries = 3
            /\ Len(navs) > n =>
                 /\ navs[n + 1].url = url
                 /\ navs[n + 1].retries = 3
                 /\ Len(navs) - (n + 1) <= 5
                 /\ \A j \in (n + 2)..Len(navs) : navs[j].retries = 2

\* all 11 paths, the reload and 5 of 6 discovered links were navigated
C11_Witness ==
  \E i \in Targets(1) :
    /\ sc[1][i].pc = "done"
    /\ Len(sc[1][i].navs) = Len(SERVICE_PAGE_PATHS) + 1 + 5
    /\ competitors[1][i].website = UrlE

\* an attempt slot in which a load succeeded
SlotSucceeds(a) ==
  a.primary = "ok" \/ (a.primary = "blocked" /\ a.alt = "ok")

\* the loads one attempt slot makes when it runs to its end
SlotLoads(a) == IF a.primary = "blocked" THEN 2 ELSE 1

RECURSIVE SumLoads(_, _)
SumLoads(g, n) == IF n = 0 THEN 0 ELSE SumLoads(g, n - 1) + SlotLoads(g[n])

\* C12: navigate never throws; it returns true exactly when some attempt
\* slot has a successful load (primary or alternate scheme), its last
\* action is then that load and no slot after the first successful one is
\* run; it returns false when every one of the maxAttempts slots failed,
\* having run them all, and with maxAttempts = 0 it loads nothing
C12_NavigateNeverThrows ==
  /\ nv.pc # "threw"
  /\ nv.pc = "returned" =>
       LET g == nv.g
           n == nv.retries
           log == nv.run.log
           good == { j \in 1..n : SlotSucceeds(g[j]) }
       IN /\ nv.run.ok = (good # {})
          /\ good # {} =>
               LET f == CHOOSE j \in good : \A k \in good : j <= k
               IN /\ Len(Loads(log)) = SumLoads(g, f)
                  /\ log[Len(log)].kind = "goto"
                  /\ log[Len(log)].attempt = f - 1
                  /\ log[Len(log)].url =
                       IF g[f].primary = "ok" THEN nv.url ELSE AltUrl(nv.url)
          /\ good = {} => Len(Loads(log)) = SumLoads(g, n)
          /\ n = 0 => log = <<>> /\ ~nv.run.ok

\* the first slot fails, the second is blocked and its alternate-scheme
\* load succeeds, and later slots that would succeed are left
C12_Witness ==
  /\ nv.pc = "returned" /\ nv.run.ok /\ nv.retries = 3
  /\ nv.g[1].primary = "error"
  /\ nv.g[2] = [primary |-> "blocked", alt |-> "ok"]
  /\ nv.g[3].primary = "ok"
  /\ Len(Loads(nv.run.log)) = 3

\* browsers that were launched and are not closed
LiveBrowsers == { x \in 1..launched : x \notin closedBrowsers }

\* C13: under every interleaving of the session acquisitions at most one
\* browser is launched and held: every launched browser that is still
\* connected is the one the singleton holds
C13_OneSharedBrowser ==
  /\ Cardinality(LiveBrowsers) <= 1
  /\ \A x \in LiveBrowsers : browser = x

\* C14: when a batch that ran alone has returned, every browser launched
\* during it is closed and the singleton is cleared
C14_BatchClosesItsBrowsers ==
  \A b \in BatchIds :
    bpc[b] = "returned" => LiveBrowsers = {} /\ browser = 0

\* the text holds one of the exclusion keywords
HasExclusionKeyword(text) ==
  \E kw \in EXCLUDE_KEYWORDS : Includes(ToLowerCase(text), kw)

\* the texts of the model that hold one
ExclusionTexts == { text \in SourceTexts : HasExclusionKeyword(text) }

\* the result scrapeCompetitorPrices builds from the candidates of a page
ResultOf(elements, order) ==
  Aggregate(UrlA, [StartExplore EXCEPT
                     !.bestServices = extractAllServices(elements, order),
                     !.successfulUrl = UrlA])

\* C15: a text that holds an exclusion keyword is the source of no
\* candidate of the result, whichever strategy met it and whatever its
\* price, and contributes to no category price: the result is the one the
\* page gives without the elements holding such a text
C15_ExcludedNeverCounted ==
  ex.pc = "done" =>
    /\ \A j \in 1..Len(ex.services) : ex.services[j].text \notin ExclusionTexts
    /\ ex.result.allServices = ex.services
    /\ ex.result =
         ResultOf(SelectSeq(ex.elements,
                            LAMBDA el : el.text \notin ExclusionTexts),
                  ex.order)

\* an in-range refill price stands next to a service that is a candidate
C15_Witness ==
  /\ ex.pc = "done"
  /\ Len(ex.elements) = 2
  /\ ex.elements[1] = [text |-> TextRefill, listed |-> TRUE]
  /\ ex.elements[2].text = TextAcr
  /\ Len(ex.services) = 1
  /\ ex.result.acrylic = 60

\* C16: the element "Gel Manicure - $45, Fill $15" alone yields exactly one
\* candidate, a gel candidate priced 45
C16_GelKeptFillDropped ==
  (ex.pc = "done" /\ Texts(ex.elements) = <<TextGelFill>>) =>
    /\ Len(ex.services) = 1
    /\ ex.services[1].serviceType = "gel"
    /\ ex.services[1].price = 45

\* the candidates of a category's bucket whose price is in the range
InRangeBucket(services, cat) ==
  SelectSeq(FilterCategory(services, cat),
            LAMBDA s : /\ s.price >= PRICE_RANGES[cat].min
                       /\ s.price <= PRICE_RANGES[cat].max)

\* the k-th smallest of a non-empty sequence of numbers
KthSmallest(numbers, k) ==
  CHOOSE v \in { numbers[j] : j \in 1..Len(numbers) } :
    /\ Cardinality({ j \in 1..Len(numbers) : numbers[j] < v }) < k
    /\ Cardinality({ j \in 1..Len(numbers) : numbers[j] <= v }) >= k

\* the standard median, rounded to the nearest whole unit (halves up)
StandardMedian(numbers) ==
  LET n == Len(numbers)
  IN IF n % 2 = 1 THEN KthSmallest(numbers, (n + 1) \div 2)
     ELSE (KthSmallest(numbers, n \div 2)
           + KthSmallest(numbers, n \div 2 + 1) + 1) \div 2

\* C17: every category price is the rounded standard median of the prices
\* of the category's candidates that are in the category's range, and is
\* undefined when there is none
C17_MedianOfInRange ==
  ex.pc = "done" =>
    \A cat \in Categories :
      LET kept == InRangeBucket(ex.services, cat)
      IN ex.result[cat] = IF kept = <<>> THEN undefined
                          ELSE StandardMedian(Prices(kept))

\* C18: every price of a category's bucket is inside the category's range
C18_BucketPricesInRange ==
  ex.pc = "done" =>
    \A cat \in Categories :
      LET bucket == FilterCategory(ex.result.allServices, cat)
      IN \A j \in 1..Len(bucket) :
           /\ bucket[j].price >= PRICE_RANGES[cat].min
           /\ bucket[j].price <= PRICE_RANGES[cat].max

\* the results scrapeCompetitorPrices has returned
Returned ==
  UNION { { sc[b][i].res : i \in { j \in DOMAIN sc[b] : sc[b][j].pc = "done" } } :
            b \in BatchIds }
  \cup (IF ex.pc = "done" THEN {ex.result} ELSE {})

\* C19: a returned result has confidence = (categories with a defined
\* price) / 3, success exactly when the confidence is above 0, and with no
\* candidate it is success = false, confidence = 0, all prices undefined
C19_ConfidenceAndSuccess ==
  \A r \in Returned :
    /\ r.confidence =
         Cardinality({ cat \in Categories : r[cat] # undefined })
    /\ r.confidence \in 0..3
    /\ r.success = (r.confidence > 0)
    /\ r.allServices = <<>> =>
         /\ ~r.success /\ r.confidence = 0
         /\ \A cat \in Categories : r[cat] = undefined

\* two of the three categories have a price
C19_Witness ==
  /\ ex.pc = "done"
  /\ ex.result.confidence = 2
  /\ ex.result.success
  /\ ex.result.gel = 45 /\ ex.result.pedicure = 50
  /\ ex.result.acrylic = undefined

\* the time to live of each data class, in seconds
SevenDays == 7 * 24 * 60 * 60
OneDay == 24 * 60 * 60
TwelveHours == 12 * 60 * 60
ClassTtl ==
  [GEOCODING |-> SevenDays, PLACES_SEARCH |-> OneDay,
   PLACE_DETAILS |-> TwelveHours]

\* C20: with a working store, a get of a key returns the value of the last
\* set of that key when less than the class TTL (7 days, 24 hours, 12
\* hours) has elapsed since that set, and returns absent once the TTL has
\* elapsed, as for a key that was never set
C20_CacheRoundTrip ==
  LET g == ca.last
      w == g.prior
  IN (g.class # "none" /\ g.ok) =>
       IF w.class # "none"
         THEN /\ w.class = g.class
              /\ g.value = IF g.at - w.at < ClassTtl[g.class]
                             THEN w.value ELSE Null
         ELSE g.value = Null

\* a geocoding result set under one spelling of an address is read under
\* another spelling one second before the seven days are over
C20_Witness ==
  /\ ca.last.class = "GEOCODING" /\ ca.last.ok
  /\ ca.last.key = GeocodeKey(AddrMainLower)
  /\ ca.last.prior.class = "GEOCODING"
  /\ ca.last.at - ca.last.prior.at = SevenDays - 1
  /\ ca.last.value = GeoMain

\* C21: every cache operation is best-effort: a get whose store call
\* rejected or answered with an undecodable text returns absent, a set
\* whose store call rejected returns normally and leaves the store as it
\* was, and no get or set ever throws
C21_CacheBestEffort ==
  /\ ~ca.last.threw
  /\ ~ca.lastSet.threw
  /\ (ca.last.class # "none" /\ ca.last.fault # "none")
       => ca.last.value = Null
  /\ (ca.lastSet.class # "none" /\ ~ca.lastSet.ok) => ~ca.lastSet.changed

\* a places search was stored, the next set was rejected, and a get of the
\* stored key is answered with an undecodable text
C21_Witness ==
  /\ ca.last.class = "PLACES_SEARCH"
  /\ ca.last.fault = "undecodable"
  /\ ca.last.prior.class = "PLACES_SEARCH"
  /\ ca.last.value = Null
  /\ ca.lastSet.class # "none"
  /\ ~ca.lastSet.ok

\* calls whose redis.incr has answered
Counted == { c \in DOMAIN rl.calls : \E j \in DOMAIN rl.incrs : rl.incrs[j] = c }

\* the place of a counted call in the order of the increments
IncrPos(c) == CHOOSE j \in DOMAIN rl.incrs : rl.incrs[j] = c

\* two calls of one identity made in the same bucket of the window key
SameBucket(c, d) ==
  /\ rl.calls[c].userId = rl.calls[d].userId
  /\ rl.calls[c].at \div 100 = rl.calls[d].at \div 100

\* a counted call is the n-th request of its identity in its bucket
RequestNumber(c) ==
  Cardinality({ d \in Counted : SameBucket(c, d) /\ IncrPos(d) <= IncrPos(c) })

\* calls that returned from the try block
Answered ==
  { c \in DOMAIN rl.calls :
      rl.calls[c].pc = "done" /\ rl.calls[c].fault = "none" }

\* calls that returned from the catch block
FailedOpen ==
  { c \in DOMAIN rl.calls :
      rl.calls[c].pc = "done" /\ rl.calls[c].fault # "none" }

\* C22: with a working store the n-th request of an identity within one
\* bucket is allowed exactly when n <= the tier limit; every request
\* increments the counter, and remaining = max(0, limit - count) is never
\* negative
C22_AllowedUpToLimit ==
  /\ \A c \in Counted : rl.calls[c].current = RequestNumber(c)
  /\ \A c \in Answered :
       LET n == RequestNumber(c)
           limit == rl.limits[rl.calls[c].tier]
       IN /\ rl.calls[c].ret.success = (n <= limit)
          /\ rl.calls[c].ret.remaining = (IF n <= limit THEN limit - n ELSE 0)
          /\ rl.calls[c].ret.remaining >= 0

\* with a limit of 1 the first request of an identity is allowed and its
\* second request in the same bucket, 50 s later, is denied
C22_Witness ==
  /\ Len(rl.calls) = 2
  /\ Answered = {1, 2}
  /\ rl.calls[1].userId = UserAnn /\ rl.calls[2].userId = UserAnn
  /\ rl.calls[1].at = HourStart /\ rl.calls[2].at = HourStart + 50
  /\ rl.calls[1].ret.success /\ rl.calls[1].ret.remaining = 0
  /\ ~rl.calls[2].ret.success /\ rl.calls[2].ret.remaining = 0
  /\ rl.calls[2].current = 2

\* C23: when a store operation of a check fails, the check returns
\* allowed = true with remaining equal to the full tier limit and does not
\* throw
C23_FailsOpen ==
  \A c \in FailedOpen :
    /\ ~rl.calls[c].ret.threw
    /\ rl.calls[c].ret.success
    /\ rl.calls[c].ret.remaining = rl.limits[rl.calls[c].tier]
    /\ rl.calls[c].ret.limit = rl.limits[rl.calls[c].tier]

\* a request beyond the limit whose redis.ttl rejected is allowed
C23_Witness ==
  /\ 2 \in FailedOpen
  /\ rl.calls[2].fault = "ttl"
  /\ rl.calls[2].current = 2
  /\ rl.calls[2].limit = 1
  /\ rl.calls[2].ret.success
  /\ rl.calls[2].ret.remaining = 1

\* the clock hour of an instant
HourOf(t) == t \div 3600

\* the answered calls of the identity of c in the clock hour of c that
\* were allowed
AllowedInHour(c) ==
  { d \in Answered :
      /\ rl.calls[d].userId = rl.calls[c].userId
      /\ HourOf(rl.calls[d].at) = HourOf(rl.calls[c].at)
      /\ rl.calls[d].ret.success }

\* C24: the requests of one identity in one clock hour are counted in one
\* window, so at most `limit` of them are allowed in that hour, and the
\* window created by the first request of a bucket expires at the end of
\* that bucket
C24_OneWindowPerHour ==
  /\ \A c, d \in Counted :
       (/\ rl.calls[c].userId = rl.calls[d].userId
        /\ HourOf(rl.calls[c].at) = HourOf(rl.calls[d].at))
         => rl.calls[c].key = rl.calls[d].key
  /\ \A c \in Answered :
       Cardinality(AllowedInHour(c)) <= rl.limits[rl.calls[c].tier]
  /\ \A c \in Counted :
       (/\ rl.calls[c].current = 1
        /\ rl.calls[c].key \in DOMAIN rl.store
        /\ rl.store[rl.calls[c].key].expiresAt # NoExpiry)
         => rl.store[rl.calls[c].key].expiresAt
              = (HourOf(rl.calls[c].at) + 1) * 3600

\* the targets of a sequence of indices
Members(seq) == { seq[j] : j \in 1..Len(seq) }

\* C25: batch processing is chunked: a chunk holds at most `concurrency`
\* targets, only targets of the current chunk are running and only while
\* the batch awaits the chunk, every target still queued has not started,
\* and every target of an earlier chunk has completed and has had its
\* result recorded before the current chunk was dequeued
C25_ChunkedProcessing ==
  \A b \in BatchIds :
    bpc[b] \notin {"unused", "init"} =>
      /\ Len(batch[b]) <= concurrency[b]
      /\ \A i \in InFlight(b) : i \in Members(batch[b]) /\ bpc[b] = "awaiting"
      /\ \A i \in Members(queue[b]) : sc[b][i].pc = "idle"
      /\ \A i \in Targets(b) \ (Members(queue[b]) \cup Members(batch[b])) :
           /\ sc[b][i].pc = "done"
           /\ i \in DOMAIN setLog[b]
           /\ competitors[b][i].name \in DOMAIN results[b]

\* with concurrency 1 the second target is running in the second chunk
\* after the first target completed and was recorded
C25_Witness ==
  /\ concurrency[1] = 1
  /\ Len(competitors[1]) = 2
  /\ batch[1] = <<2>>
  /\ 2 \in InFlight(1)
  /\ sc[1][1].pc = "done"
  /\ 1 \in DOMAIN setLog[1]

\* the wait strategies in the order of the specification: waitUntil and
\* timeout in milliseconds
StrategyCycle ==
  <<[waitUntil |-> "domcontentloaded", timeout |-> 15000],
    [waitUntil |-> "networkidle0", timeout |-> 20000],
    [waitUntil |-> "load", timeout |-> 25000]>>

\* C26: attempt i (counted from 0) of navigate uses the wait strategy at
\* position i modulo 3 of the list, so the strategies cycle when there are
\* more attempts than strategies
C26_StrategiesCycle ==
  nv.pc = "returned" =>
    \A p \in 1..Len(nv.run.log) :
      nv.run.log[p].kind = "goto" =>
        LET want == StrategyCycle[(nv.run.log[p].attempt % 3) + 1]
        IN /\ nv.run.log[p].waitUntil = want.waitUntil
           /\ nv.run.log[p].timeout = want.timeout

\* the places in the log of the loads of attempt i (counted from 0)
GotosOf(log, i) ==
  { p \in 1..Len(log) : log[p].kind = "goto" /\ log[p].attempt = i }

\* the URL with the opposite scheme
OppositeScheme(url) ==
  IF SubSeq(url, 1, 8) = HttpsScheme
    THEN HttpScheme \o SubSeq(url, 9, Len(url))
    ELSE HttpsScheme \o SubSeq(url, 8, Len(url))

\* C27: a load that fails as blocked by the client is followed at once,
\* before any wait, by exactly one load of the URL with the opposite scheme
\* under the same wait strategy; its success makes navigate return true,
\* its failure is swallowed; after any other failure no such load is made
C27_AlternateSchemeOnce ==
  nv.pc \in {"returned", "threw"} =>
    LET log == nv.run.log
    IN \A i \in 0..(nv.retries - 1) :
         LET at == GotosOf(log, i)
             first == CHOOSE p \in at : \A q \in at : p <= q
         IN at # {} =>
              /\ log[first].url = nv.url
              /\ IF nv.g[i + 1].primary = "blocked"
                   THEN /\ at = {first, first + 1}
                        /\ log[first + 1].url = OppositeScheme(nv.url)
                        /\ log[first + 1].waitUntil = log[first].waitUntil
                        /\ log[first + 1].timeout = log[first].timeout
                        /\ nv.pc = "returned"
                        /\ nv.g[i + 1].alt = "ok"
                             => nv.run.ok /\ Len(log) = first + 1
                   ELSE at = {first}

\* the first load is blocked and the load of the other scheme fails, the
\* second load fails otherwise, the third is blocked and the load of the
\* other scheme succeeds
C27_Witness ==
  /\ nv.pc = "returned" /\ nv.run.ok /\ nv.retries = 3
  /\ nv.url = UrlA
  /\ nv.g[1] = [primary |-> "blocked", alt |-> "error"]
  /\ nv.g[2].primary = "error"
  /\ nv.g[3] = [primary |-> "blocked", alt |-> "ok"]
  /\ Len(Loads(nv.run.log)) = 5

\* C28: the wait between the failed attempt number i (counted from 1) and
\* the next attempt is i * 1000 ms, there is exactly one wait between two
\* attempts, and no wait is made after the last attempt
C28_LinearBackoff ==
  nv.pc = "returned" =>
    LET log == nv.run.log
    IN /\ \A p \in 1..Len(log) :
            log[p].kind = "wait" =>
              /\ p > 1 /\ p < Len(log)
              /\ log[p - 1].kind = "goto"
              /\ log[p + 1].kind = "goto"
              /\ log[p + 1].attempt = log[p - 1].attempt + 1
              /\ log[p].ms = (log[p - 1].attempt + 1) * 1000
       /\ \A p \in 1..(Len(log) - 1) :
            (/\ log[p].kind = "goto" /\ log[p + 1].kind = "goto")
              => log[p + 1].attempt = log[p].attempt
       /\ (~nv.run.ok /\ nv.retries > 0) =>
            /\ log[Len(log)].kind = "goto"
            /\ log[Len(log)].attempt = nv.retries - 1

\* three attempts fail: the waits are 1000 ms and 2000 ms and false is
\* returned right after the third load
C28_Witness ==
  /\ nv.pc = "returned" /\ ~nv.run.ok /\ nv.retries = 3
  /\ \A j \in 1..3 : nv.g[j].primary = "error"
  /\ Len(nv.run.log) = 5
  /\ nv.run.log[2] = [kind |-> "wait", ms |-> 1000]
  /\ nv.run.log[4] = [kind |-> "wait", ms |-> 2000]
  /\ nv.run.log[5].kind = "goto"

\* a scrape that has its page and has not yet reached its finally block
Extracting(b, i) == sc[b][i].pc = "exploring"

\* C29: the teardown of a batch closes the browser held by the module
\* variable and every page on it, whichever batch opened the page and
\* whatever the scrapes of the other batch are doing; they are left where
\* they stand.  With two overlapping batches the batch that finishes first
\* so closes the browser under a running extraction of the other batch
C29_TeardownClosesSharedBrowser ==
  [][\A b \in BatchIds :
       (bpc[b] = "closing" /\ bpc'[b] = "returned") =>
         /\ closing[b] \in closedBrowsers'
         /\ sc' = sc
         /\ \A s \in ScrapeIds :
              sc[s[1]][s[2]].br = closing[b] => PageOf(s[1], s[2]) \notin pages']_vars

\* the first batch to finish has returned, and the other batch, still
\* awaiting its chunk, has an extraction running on the browser it closed
C29_Witness ==
  \E b \in BatchIds : \E b2 \in BatchIds \ {b} :
    /\ bpc[b] = "returned"
    /\ bpc[b2] = "awaiting"
    /\ closing[b] \in closedBrowsers
    /\ \E i \in DOMAIN sc[b2] :
         /\ Extracting(b2, i)
         /\ sc[b2][i].br = closing[b]
         /\ PageOf(b2, i) \notin pages

\* the pair the deduplication is about
PairOf(service) == <<service.serviceType, service.price>>

\* the services a strategy proposes for its texts, in the order of its loop
RECURSIVE ProposalsOf(_, _, _)
ProposalsOf(texts, source, order) ==
  IF texts = <<>> THEN <<>>
  ELSE (IF Candidates[Head(texts)][source][order].some
          THEN <<Candidates[Head(texts)][source][order].service>>
          ELSE <<>>)
       \o ProposalsOf(Tail(texts), source, order)

\* the proposals whose pair no earlier proposal has
FirstOfPair(props) ==
  LET first(j) == \A i \in 1..(j - 1) : PairOf(props[i]) # PairOf(props[j])
      RECURSIVE keep(_)
      keep(j) == IF j > Len(props) THEN <<>>
                 ELSE (IF first(j) THEN <<props[j]>> ELSE <<>>) \o keep(j + 1)
  IN keep(1)

\* the proposals of the rendered and the structural strategy, then those of
\* the raw strategy when it runs
ProposalsBeforeRaw(elements, order) ==
  ProposalsOf(VisibleServices(elements), "puppeteer-eval", order)
  \o ProposalsOf(SelectedTexts(elements), "cheerio", order)

ProposalsInOrder(before, elements, order) ==
  IF Len(FirstOfPair(before)) < 3
    THEN before \o ProposalsOf(BodyLines(elements), "raw-text", order)
    ELSE before

\* C30: the services of one page never hold two candidates with the same
\* (serviceType, price) pair, and they are exactly the first proposal of
\* every pair in the order rendered, structural, raw
C30_FirstProposalPerPair ==
  ex.pc = "done" =>
    /\ \A j \in 1..Len(ex.services) : \A k \in 1..Len(ex.services) :
         PairOf(ex.services[j]) = PairOf(ex.services[k]) => j = k
    /\ ex.services =
         FirstOfPair(ProposalsInOrder(
           ProposalsBeforeRaw(ex.elements, ex.order), ex.elements, ex.order))

\* a pair proposed by all three strategies is kept once, as the rendered
\* strategy proposed it, next to a service of another pair
C30_Witness ==
  /\ ex.pc = "done"
  /\ Len(ex.services) = 2
  /\ \E j \in 1..Len(ex.services) :
       /\ ex.services[j].source = "puppeteer-eval"
       /\ \E p \in 1..Len(ProposalsOf(SelectedTexts(ex.elements), "cheerio", ex.order)) :
            PairOf(ProposalsOf(SelectedTexts(ex.elements), "cheerio", ex.order)[p])
              = PairOf(ex.services[j])
       /\ \E p \in 1..Len(ProposalsOf(BodyLines(ex.elements), "raw-text", ex.order)) :
            PairOf(ProposalsOf(BodyLines(ex.elements), "raw-text", ex.order)[p])
              = PairOf(ex.services[j])

\* the events of one kind in the log of the exploration
EventsOf(kind) == SelectSeq(xp.st.log, LAMBDA e : e.kind = kind)

\* STEP 1 is running or has just ended: the log holds its turns only
InStepOne == xp.pc \in {"paths", "step2"}

\* the services kept are those of the first extraction that yielded the
\* most, and the URL kept is the URL of that extraction
KeepsFirstLongest(yields) ==
  IF \A j \in 1..Len(yields) : yields[j].services = <<>>
    THEN xp.st.bestServices = <<>> /\ xp.st.successfulUrl = <<>>
    ELSE \E j \in 1..Len(yields) :
           /\ \A i \in 1..Len(yields) :
                Len(yields[i].services) <= Len(yields[j].services)
           /\ \A i \in 1..(j - 1) :
                Len(yields[i].services) < Len(yields[j].services)
           /\ xp.st.bestServices = yields[j].services
           /\ xp.st.successfulUrl = yields[j].url

\* the j-th navigation of STEP 1 goes to the j-th path suffix, the home
\* page first
PathsInOrder(navs) ==
  /\ Len(navs) = Len(pathsToTry(xp.websiteUrl)) - Len(xp.paths)
  /\ Len(navs) > 0 => navs[1].url = xp.websiteUrl
  /\ \A j \in 1..Len(navs) :
       navs[j].url = TryUrl(xp.websiteUrl, pathsToTry(xp.websiteUrl)[j])

\* C31: STEP 1 navigates the path suffixes in their order, the home page
\* first; after an extraction that yielded 2 services or more it navigates
\* no further path; nothing is read from a path whose navigation failed;
\* the candidates kept are those of the earliest path that yielded the most
C31_PathExploration ==
  InStepOne =>
    /\ PathsInOrder(EventsOf("navigate"))
    /\ \A i \in 1..Len(xp.st.log) :
         (xp.st.log[i].kind = "extract" /\ Len(xp.st.log[i].services) >= 2)
           => /\ i = Len(xp.st.log)
              /\ xp.pc = "step2"
    /\ \A i \in 1..Len(xp.st.log) :
         (xp.st.log[i].kind = "navigate" /\ ~xp.st.log[i].ok)
           => (i = Len(xp.st.log) \/ xp.st.log[i + 1].kind = "navigate")
    /\ \A i \in 1..Len(xp.st.log) :
         xp.st.log[i].kind = "extract" => xp.st.log[i].loaded = xp.st.log[i].url
    /\ KeepsFirstLongest(EventsOf("extract"))

\* STEP 1 ended before the last path: a path failed to load, a path
\* yielded one service, a later path yielded two and replaced it
C31_Witness ==
  /\ xp.pc = "step2"
  /\ xp.paths # <<>>
  /\ \E i \in 1..Len(xp.st.log) :
       xp.st.log[i].kind = "navigate" /\ ~xp.st.log[i].ok
  /\ \E i \in 1..Len(xp.st.log) :
       xp.st.log[i].kind = "extract" /\ Len(xp.st.log[i].services) = 1
  /\ Len(xp.st.bestServices) = 2
  /\ xp.st.successfulUrl # xp.websiteUrl

\* the navigateToUrl calls of STEP 1 made by the exploration
PathNavs == Len(pathsToTry(xp.websiteUrl)) - Len(xp.paths)

\* the place in the log of the k-th navigateToUrl call
NavAt(k) ==
  CHOOSE i \in 1..Len(xp.st.log) :
    /\ xp.st.log[i].kind = "navigate"
    /\ Cardinality({j \in 1..i : xp.st.log[j].kind = "navigate"}) = k

\* the navigateToUrl calls that follow links: those after the reload
LinkNavs(navs) == SubSeq(navs, PathNavs + 2, Len(navs))

\* STEP 2 has run: a navigateToUrl call follows those of STEP 1
FallbackRan == Len(EventsOf("navigate")) > PathNavs

\* an extraction of STEP 2 yielded 2 services or more
LinkYieldedEnough ==
  \E i \in 1..Len(xp.st.log) :
    /\ i > NavAt(PathNavs + 1)
    /\ xp.st.log[i].kind = "extract"
    /\ Len(xp.st.log[i].services) >= 2

\* the links were followed in order, 5 at most, and all of them unless one
\* yielded enough
FollowedInOrder(links) ==
  /\ Len(links) <= 5
  /\ Len(links) <= Len(xp.found)
  /\ \A j \in 1..Len(links) : links[j].url = xp.found[j]
  /\ (xp.pc = "done" /\ ~LinkYieldedEnough)
       => Len(links) = (IF Len(xp.found) < 5 THEN Len(xp.found) ELSE 5)

\* no extraction before the reload at place r yielded 2 services or more,
\* and one that did so after it is the last thing the exploration did
StopsAtEnough(r) ==
  \A i \in 1..Len(xp.st.log) :
    (xp.st.log[i].kind = "extract" /\ Len(xp.st.log[i].services) >= 2)
      => (i > r /\ i = Len(xp.st.log) /\ xp.pc = "done")

\* C32: STEP 2 runs only when no path yielded 2 services or more and the
\* target is not on a social-media domain; it follows the discovered links
\* in order, 5 at most; after a link yielded 2 services or more no link is
\* followed; a link that fails to load or to be read does not keep the
\* following links from being followed
C32_LinkFallback ==
  (xp.pc \in {"links", "done"} /\ FallbackRan) =>
    /\ ~IsSocial(xp.websiteUrl)
    /\ StopsAtEnough(NavAt(PathNavs + 1))
    /\ xp.st.log[NavAt(PathNavs + 1)].url = xp.websiteUrl
    /\ FollowedInOrder(LinkNavs(EventsOf("navigate")))

\* six links were discovered and five followed: the first failed to load,
\* a later one loaded, none yielded two services
C32_Witness ==
  /\ xp.pc = "done"
  /\ FallbackRan
  /\ Len(xp.found) = 6
  /\ Len(LinkNavs(EventsOf("navigate"))) = 5
  /\ ~LinkNavs(EventsOf("navigate"))[1].ok
  /\ \E j \in 2..5 : LinkNavs(EventsOf("navigate"))[j].ok
  /\ ~LinkYieldedEnough

\* C33: for a target on a social-media domain the scrape makes one
\* navigateToUrl call, for the URL it was given; it clicks no expand
\* control, follows no link, and the delay after the load is 3000 ms
C33_SocialSinglePage ==
  (IsSocial(xp.websiteUrl) /\ xp.pc = "done") =>
    /\ Len(EventsOf("navigate")) = 1
    /\ EventsOf("navigate")[1].url = xp.websiteUrl
    /\ EventsOf("expand") = <<>>
    /\ xp.found = <<>> /\ xp.links = <<>>
    /\ \A i \in 1..Len(xp.st.log) :
         /\ xp.st.log[i].kind = "settle" => xp.st.log[i].ms = 3000
         /\ xp.st.log[i].kind = "extract" => xp.st.log[i].url = xp.websiteUrl
    /\ EventsOf("navigate")[1].ok => Len(EventsOf("settle")) = 1

\* the scrape of a social-media page that loaded and yielded one service
C33_Witness ==
  /\ IsSocial(xp.websiteUrl)
  /\ xp.pc = "done"
  /\ Len(EventsOf("settle")) = 1
  /\ Len(xp.st.bestServices) = 1
  /\ xp.result.source = xp.websiteUrl

\* "facebook"
FacebookWord == <<"f", "a", "c", "e", "b", "o", "o", "k">>

C37_SourceWasLoaded ==
  (xp.pc = "done" /\ xp.st.bestServices # <<>>) =>
    /\ \E i \in 1..Len(xp.st.log) :
         /\ xp.st.log[i].kind = "navigate"
         /\ xp.st.log[i].url = xp.result.source
         /\ xp.st.log[i].ok
    /\ \E i \in 1..Len(xp.st.log) :
         /\ xp.st.log[i].kind = "extract"
         /\ xp.st.log[i].url = xp.result.source
         /\ xp.st.log[i].loaded = xp.result.source
         /\ xp.st.log[i].services = xp.result.allServices

\* the targets 1..n of a batch of n
FirstTargets(n) == [j \in 1..n |-> j]

\* targets of batch b that have left the queue and the chunk
ChunksBehind(b) == Len(competitors[b]) - Len(queue[b]) - Len(batch[b])

\* C35: with concurrency k >= 1 every chunk holds the next min(k, queue
\* length) >= 1 targets, so the chunks are the consecutive blocks of k and
\* after ceil(n/k) of them the queue is empty; with k <= 0 and targets to
\* process nothing is ever dequeued: the call stays in its loop, records no
\* result, starts no scrape and never calls closeBrowser
C35_ProgressIffPositive ==
  /\ (concurrency[1] >= 1 /\ bpc[1] = "awaiting") =>
       /\ Len(batch[1]) >= 1
       /\ Len(batch[1]) =
            Min(concurrency[1], Len(competitors[1]) - ChunksBehind(1))
       /\ ChunksBehind(1) % concurrency[1] = 0
       /\ batch[1] \o queue[1] =
            SubSeq(FirstTargets(Len(competitors[1])), ChunksBehind(1) + 1,
                   Len(competitors[1]))
  /\ (concurrency[1] >= 1 /\ bpc[1] \in {"closing", "returned", "thrown"}
       /\ closeCalls[1] = 1)
       => queue[1] = <<>>
  /\ (concurrency[1] <= 0 /\ competitors[1] # <<>>) =>
       /\ bpc[1] \in {"init", "awaiting"}
       /\ bpc[1] = "awaiting" =>
            (batch[1] = <<>>
             /\ queue[1] = FirstTargets(Len(competitors[1])))
       /\ results[1] = EmptyMap
       /\ closeCalls[1] = 0
       /\ launched = 0
       /\ \A i \in DOMAIN sc[1] : sc[1][i].pc = "idle"

\* a batch of two targets with concurrency 0 is in its loop: the chunk is
\* empty and both targets are still queued
C35_Witness ==
  /\ concurrency[1] = 0
  /\ Len(competitors[1]) = 2
  /\ bpc[1] = "awaiting"
  /\ batch[1] = <<>>
  /\ Len(queue[1]) = 2

\* the checks made with the window key of check c
SameKey(c) == { d \in DOMAIN rl.calls : rl.calls[d].key = rl.calls[c].key }

\* C34: the checks of one identity in one bucket, in whatever order their
\* store operations interleave, read pairwise different counter values,
\* and once all N of them have returned from the try block exactly
\* min(N, limit) of them were allowed
C34_ConcurrentChecksCounted ==
  \A c \in DOMAIN rl.calls :
    /\ \A d \in SameKey(c) \cap Counted :
         (c \in Counted /\ d # c) => rl.calls[d].current # rl.calls[c].current
    /\ SameKey(c) \subseteq Answered =>
         Cardinality({ d \in SameKey(c) : rl.calls[d].ret.success })
           = Min(Cardinality(SameKey(c)), rl.calls[c].limit)

\* two checks of one identity were in progress together; the increment of
\* the check issued second reached the store first, so with a limit of 1
\* it is the one allowed
C34_Witness ==
  /\ Len(rl.calls) = 2
  /\ Answered = {1, 2}
  /\ rl.calls[1].key = rl.calls[2].key
  /\ rl.calls[1].limit = 1
  /\ rl.incrs = <<2, 1>>
  /\ rl.calls[2].ret.success
  /\ ~rl.calls[1].ret.success

\* the identity whose check created the window under key k
KeyOwner(k) ==
  rl.calls[CHOOSE c \in DOMAIN rl.calls : rl.calls[c].key = k].userId

\* resets that returned
ResetsDone ==
  { n \in DOMAIN rl.resets : rl.resets[n].pc = "done" /\ ~rl.resets[n].threw }

\* the first increment made for identity u after the first `from`
FirstIncrAfter(u, from) ==
  { j \in DOMAIN rl.incrs :
      /\ j > from
      /\ rl.calls[rl.incrs[j]].userId = u
      /\ \A i \in (from + 1)..(j - 1) : rl.calls[rl.incrs[i]].userId # u }

\* C38: resetRateLimit(u) removes every window of u, leaves the windows of
\* every other identity as they were, and the next check of u counts from 1
C38_ResetOnlyOwnWindows ==
  \A n \in ResetsDone :
    /\ \A k \in DOMAIN rl.resets[n].before :
         IF KeyOwner(k) = rl.resets[n].userId
           THEN k \notin DOMAIN rl.resets[n].after
           ELSE /\ k \in DOMAIN rl.resets[n].after
                /\ rl.resets[n].after[k] = rl.resets[n].before[k]
    /\ \A j \in FirstIncrAfter(rl.resets[n].userId, rl.resets[n].incrsAt) :
         rl.calls[rl.incrs[j]].current = 1

====
